---- MODULE Spec2Model ----
(***************************************************************************)
(* Storage/sync layer of memory-keeper: the two production StorageProvider *)
(* adapters (GoogleDriveProvider, CloudKitProvider) and the native         *)
(* CloudKit plugin they talk to.                                           *)
(*                                                                         *)
(* Every handler is an async function.  A call runs from one await to the  *)
(* next as one atomic step (JavaScript is single threaded); the step       *)
(* functions below (Drive_createMemory, CK_updateMemory, ...) are the      *)
(* handlers' code, cut at their awaits.  The *_done actions are the        *)
(* resolutions of the awaited helper / backend requests; their outcome is  *)
(* chosen by the environment.                                              *)
(***************************************************************************)
EXTENDS Integers, Sequences, FiniteSets, TLC

\* ---------------------------------------------------------------- bounds
MaxMemoryIds == 2       \* memories that can be created in one behaviour
MaxMediaIds == 3        \* media uploads that can succeed in one behaviour
MaxTicks == 1           \* ticks the clock can advance in one behaviour
MaxCalls == 4           \* calls a behaviour can invoke
TicksPerSecond == 2     \* clock ticks per second of wall time
MaxInFlight == 2        \* calls that may overlap when callers do not sequence
MaxRuns == 2            \* migration runs the migration screen can start

\* ---------------------------------------------------------------- inputs
Providers == {"googledrive", "cloudkit"}
Users == {"u1", "u2"}
Callbacks == {"cb1", "cb2"}
Throwing == {"cb1"}     \* callbacks whose body throws when invoked
Slots == 1..MaxInFlight
ClockStart == TicksPerSecond - 1    \* the clock starts just before a full second
MemoryIds == 1..MaxMemoryIds
MediaIds == 1..MaxMediaIds

NoText == "<undefined>"
NoTags == <<"<undefined>">>

Photo == [name |-> [base |-> "photo", ext |-> "png"], type |-> [major |-> "image", minor |-> "png"]]
Voice == [name |-> [base |-> "voice", ext |-> "mp3"], type |-> [major |-> "audio", minor |-> "mpeg"]]

\* MemoryInput values offered to createMemory
Inputs ==
  { [text |-> "Beach day", tags |-> <<"summer", "family">>, mediaFiles |-> <<>>],
    [text |-> "A", tags |-> <<>>, mediaFiles |-> <<Photo, Voice>>],
    [text |-> "B", tags |-> <<"family", "summer">>, mediaFiles |-> <<Voice>>] }

\* ------------------------------------------------------- sequence helpers
Range(s) == {s[i] : i \in 1..Len(s)}

\* Array.prototype.findIndex / find on m.id (1-based here, 0 for "not found")
FindIndex(s, id) ==
  IF \E i \in 1..Len(s) : s[i].id = id
    THEN CHOOSE i \in 1..Len(s) : s[i].id = id /\ \A j \in 1..(i-1) : s[j].id # id
    ELSE 0

\* Array.prototype.filter((m) => m.id !== id)
FilterOut(s, id) == SelectSeq(s, LAMBDA m : m.id # id)

\* ------------------------------------------------------------ data shapes
NoMemory ==
  [id |-> 0, text |-> "", tags |-> <<>>, media |-> <<>>,
   createdAt |-> 0, updatedAt |-> 0, userId |-> ""]

NoAttachment ==
  [id |-> 0, type |-> "image", fileName |-> [base |-> "", ext |-> ""],
   storagePath |-> [store |-> "", id |-> 0, ext |-> ""]]

\* this.* of a freshly constructed provider
NewProvider ==
  [userId |-> "null", initialized |-> FALSE, memories |-> <<>>,
   memoriesFileId |-> 0, changeListeners |-> <<>>]

NoRes == [ok |-> FALSE, kind |-> "pending"]

\* JSON.stringify(mediaAttachments): a text that parses to an array
JSONstringify(list) == [kind |-> "text", t |-> "array", v |-> list]

\* what the native plugin resolves a record call with (recordToDict)
NoDict ==
  [id |-> 0, text |-> "", tags |-> <<>>, media |-> JSONstringify(<<>>),
   createdAt |-> [isoSec |-> 0], updatedAt |-> [isoSec |-> 0]]

\* the SyncResult of a forceSync that has not returned
NoSync ==
  [success |-> FALSE, uploaded |-> 0, downloaded |-> 0, conflicts |-> <<>>, errors |-> <<>>]

\* an idle slot / the shape of every call record
NoCall ==
  [op |-> "none", pc |-> "idle",
   u |-> "null", id |-> 0, text |-> NoText, tags |-> NoTags, files |-> <<>>,
   mediaId |-> 0, path |-> NoAttachment.storagePath, cb |-> "none",
   att |-> <<>>, i |-> 0, idx |-> 0, existing |-> NoMemory, found |-> FALSE,
   body |-> <<>>, fid |-> 0, uploaded |-> <<>>,
   pre |-> NewProvider, preNow |-> 0, preOk |-> {},
   preLast |-> [u |-> "null", ok |-> FALSE],
   trace |-> <<>>, notified |-> <<>>, payload |-> <<>>,
   rec |-> NoDict, list |-> <<>>, sync |-> NoSync,
   res |-> NoRes, val |-> NoMemory, post |-> NewProvider]

\* ------------------------------------------------------------------ state
VARIABLES
  provider,    \* which adapter this instance is
  overlap,     \* whether callers start a call while another is in flight
  this,        \* the adapter's fields
  remote,      \* the backend: Drive appDataFolder / CloudKit zone
  calls,       \* calls in flight, by slot
  ret,         \* the call that returned last, with its result
  now,         \* wall clock, in ticks
  nextId,      \* next fresh memory id (uuid)
  nextMedia,   \* next fresh media id (uuid)
  hist,        \* history: the initialize calls that succeeded, runs of calls
  ncalls,      \* calls invoked so far
  mig,         \* the MigrationService run: position, export, progress, result
  conv,        \* a remote record and the Memory recordToMemory makes of it
  auth         \* the auth provider: fields, native session, calls, deliveries

vars ==
  <<provider, overlap, this, remote, calls, ret, now, nextId, nextMedia, hist, ncalls, mig,
    conv, auth>>

\* the components the storage adapters and the migration leave alone
others == <<conv, auth>>

NoHist ==
  [okInit |-> {},
   lastInit |-> [u |-> "null", ok |-> FALSE],
   createRun |-> <<>>, createBase |-> <<>>,
   updRun |-> [n |-> 0, id |-> 0, base |-> <<>>, files |-> <<>>, atts |-> <<>>]]

NewRemote ==
  [files |-> <<>>,        \* Drive: the memories.json files of appDataFolder
   zone |-> FALSE,        \* CloudKit: MemoriesZone exists
   zoneSaves |-> 0,       \* CloudKit: zone save operations accepted
   records |-> <<>>]      \* CloudKit: records of the zone

\* no record has been converted
NoConversion ==
  [record |-> NoDict, pc |-> "idle", memory |-> NoMemory, media |-> [t |-> "array", v |-> <<>>],
   \* a legacy attachment, the File made for it and the type its upload gives it
   legacy |-> NoAttachment,
   file |-> [name |-> NoAttachment.fileName, type |-> [major |-> "", minor |-> ""]],
   type |-> ""]

\* no auth provider has been constructed
NewAuth == [kind |-> "none"]

\* no migration has run: onProgress, the export and the result of a run
NoMigration ==
  [pc |-> "idle", run |-> 0, onProgress |-> FALSE, watched |-> FALSE, firebaseUserId |-> "", newUserId |-> "",
   docs |-> <<>>, memories |-> <<>>, mediaBlobs |-> {}, d |-> 0, j |-> 0,
   newMediaAttachments |-> <<>>, completedItems |-> 0,
   progress |-> <<>>, log |-> <<>>,
   result |-> [returned |-> FALSE, success |-> FALSE, migratedCount |-> 0, error |-> ""]]

InitBase ==
  /\ mig = NoMigration
  /\ provider \in Providers
  /\ this = NewProvider
  /\ remote = NewRemote
  /\ calls = [s \in Slots |-> NoCall]
  /\ ret = NoCall
  /\ now = ClockStart
  /\ nextId = 1
  /\ nextMedia = 1
  /\ hist = NoHist
  /\ ncalls = 0

InitCommon == InitBase /\ conv = NoConversion /\ auth = NewAuth

\* callers await each call before starting the next
Init == InitCommon /\ overlap = FALSE

\* callers start calls without awaiting earlier ones
InitOverlap == InitCommon /\ overlap = TRUE

\* ------------------------------------------------------------- bookkeeping
World == [this |-> this, now |-> now, nextId |-> nextId]

\* new Date(): the clock may have advanced since it was last read
ReadClock(w, adv) == IF w.now + adv <= ClockStart + MaxTicks THEN w.now + adv ELSE w.now

Go(w, c) == [w |-> w, c |-> c]

Return(c, kind) ==
  [c EXCEPT !.pc = "return", !.res = [ok |-> kind = "none", kind |-> kind]]

\* the resolution of an awaited helper call
Event(kind, ok, err) ==
  [kind |-> kind, ok |-> ok, err |-> err, att |-> NoAttachment, rec |-> NoDict]

\* the call's trace: the helper calls it makes and how each request resolved
Request(c, name, arg) ==
  [c EXCEPT !.trace = Append(c.trace, [e |-> name, a |-> arg, r |-> "call"])]

Resolved(c, name, arg, ok) ==
  [c EXCEPT !.trace = Append(c.trace, [e |-> name, a |-> arg, r |-> IF ok THEN "ok" ELSE "fail"])]

HistAfter(c) ==
  LET ok == c.res.ok
      u == hist.updRun
      preIdx == FindIndex(c.pre.memories, c.id)
  IN
  [okInit |-> IF c.op = "initialize" /\ ok THEN hist.okInit \cup {c.u} ELSE hist.okInit,
   lastInit |-> IF c.op = "initialize" THEN [u |-> c.u, ok |-> ok] ELSE hist.lastInit,
   \* the ids returned by the successful createMemory calls made in a row
   createRun |-> IF c.op = "createMemory" /\ ok
                   THEN Append(hist.createRun, c.val.id) ELSE <<>>,
   \* the cache before the first of them
   createBase |-> IF c.op = "createMemory" /\ ok
                    THEN (IF hist.createRun = <<>> THEN c.pre.memories ELSE hist.createBase)
                    ELSE <<>>,
   \* successful updateMemory(id, {}, files) calls made in a row on one id:
   \* the media before the first, the files given and the attachments uploaded
   updRun |-> IF c.op = "updateMemory" /\ ok /\ c.text = NoText /\ c.tags = NoTags
                   /\ preIdx # 0
                THEN IF u.n >= 1 /\ u.id = c.id
                       THEN [u EXCEPT !.n = u.n + 1, !.files = u.files \o c.files,
                                      !.atts = u.atts \o c.uploaded]
                       ELSE [n |-> 1, id |-> c.id, base |-> c.pre.memories[preIdx].media,
                             files |-> c.files, atts |-> c.uploaded]
                ELSE NoHist.updRun]

\* the result of running a call up to its next await or to its return
Commit(slot, r) ==
  /\ this' = r.w.this
  /\ now' = r.w.now
  /\ nextId' = r.w.nextId
  /\ IF r.c.pc = "return"
       THEN LET done == [r.c EXCEPT !.post = r.w.this] IN
            /\ ret' = done
            /\ calls' = [calls EXCEPT ![slot] = NoCall]
            /\ hist' = HistAfter(done)
       ELSE /\ calls' = [calls EXCEPT ![slot] = r.c]
            /\ UNCHANGED <<ret, hist>>

\* ------------------------------------------------- code common to adapters

\* ensureInitialized(): throws StorageError(not_initialized)
ensureInitialized(th) == th.initialized

\* notifyListeners() without the try/catch: the first callback that throws ends
\* the forEach
RECURSIVE UpToThrow(_)
UpToThrow(cbs) ==
  IF cbs = <<>> THEN <<>>
  ELSE IF Head(cbs) \in Throwing THEN <<Head(cbs)>>
  ELSE <<Head(cbs)>> \o UpToThrow(Tail(cbs))

notifyListeners_unguarded(th, c) ==
  [c EXCEPT !.notified = c.notified \o UpToThrow(th.changeListeners),
            !.payload = th.memories]

\* notifyListeners(): changeListeners.forEach, each callback in a try/catch
notifyListeners(th, c) ==
  [c EXCEPT !.notified = c.notified \o th.changeListeners,
            !.payload = th.memories]

\* media type from the declared MIME type
mediaTypeOf(file) ==
  IF file.type.major = "audio" THEN "audio"
  ELSE IF file.type.major = "video" THEN "video"
  ELSE "image"

\* getMemory(memoryId): this.memories.find(...) || null
getMemory(th, id) ==
  IF FindIndex(th.memories, id) = 0 THEN NoMemory
  ELSE th.memories[FindIndex(th.memories, id)]

\* getMemories()
getMemories(th) == th.memories

\* this.memories[index] = value, index as findIndex gave it (0 here is JS -1)
SetAt(s, index, v) ==
  IF index = 0 THEN s
  ELSE [j \in 1..(IF index > Len(s) THEN index ELSE Len(s)) |->
          IF j = index THEN v ELSE IF j <= Len(s) THEN s[j] ELSE NoMemory]


\* subscribeToChanges(callback) that registers and does not call back
Provider_subscribeToChanges_silent(w, c) ==
  LET th == [w.this EXCEPT !.changeListeners =
               IF c.cb \in Range(@) THEN @ ELSE Append(@, c.cb)]
  IN Go([w EXCEPT !.this = th], Return(c, "none"))

\* subscribeToChanges(callback): Set.add, then callback(this.memories)
Provider_subscribeToChanges(w, c) ==
  LET th == [w.this EXCEPT !.changeListeners =
               IF c.cb \in Range(@) THEN @ ELSE Append(@, c.cb)]
      c1 == [c EXCEPT !.notified = <<c.cb>>, !.payload = th.memories]
  IN Go([w EXCEPT !.this = th], Return(c1, IF c.cb \in Throwing THEN "Error" ELSE "none"))

\* the function subscribeToChanges returned: changeListeners.delete(callback)
Provider_unsubscribe(w, c) ==
  Go([w EXCEPT !.this.changeListeners = SelectSeq(@, LAMBDA k : k # c.cb)],
     Return(c, "none"))

\* ------------------------------------------------- GoogleDriveProvider

\* JSON.stringify of a Date is toISOString(): millisecond resolution
toISOString(t) == [iso |-> t]

\* new Date(isoString)
parseISO(s) == s.iso

\* JSON.stringify({ memories: this.memories })
Drive_stringify(mems) ==
  [j \in 1..Len(mems) |->
     [mems[j] EXCEPT !.createdAt = toISOString(@), !.updatedAt = toISOString(@)]]

\* (JSON.parse(text).memories || []).map(createdAt/updatedAt -> new Date(...))
Drive_parse(doc) ==
  IF doc.text = "empty" THEN <<>>
  ELSE [j \in 1..Len(doc.memories) |->
          [doc.memories[j] EXCEPT !.createdAt = parseISO(@), !.updatedAt = parseISO(@)]]

Drive_userIdOrEmpty(th) == IF th.userId = "null" THEN "" ELSE th.userId

\* initialize(userId) without the early return
Drive_initialize_again(w, c, ev, adv) ==
  CASE c.pc = "start" ->
         Go([w EXCEPT !.this.userId = c.u], [c EXCEPT !.pc = "search"])
    [] c.pc = "findOrCreate" ->
         IF ev.ok THEN Go(w, [c EXCEPT !.pc = "load"])
         ELSE Go(w, Return(c, "not_initialized"))
    [] c.pc = "load" ->
         IF ev.ok THEN Go([w EXCEPT !.this.initialized = TRUE], Return(c, "none"))
         ELSE Go(w, Return(c, "not_initialized"))

\* initialize(userId); getAccessToken() is awaited first, its failure is the
\* token failure of the search that follows
Drive_initialize(w, c, ev, adv) ==
  CASE c.pc = "start" ->
         IF w.this.initialized /\ w.this.userId = c.u
           THEN Go(w, Return(c, "none"))
           ELSE Go([w EXCEPT !.this.userId = c.u], [c EXCEPT !.pc = "search"])
    [] c.pc = "findOrCreate" ->
         IF ev.ok THEN Go(w, [c EXCEPT !.pc = "load"])
         ELSE Go(w, Return(c, "not_initialized"))
    [] c.pc = "load" ->
         IF ev.ok THEN Go([w EXCEPT !.this.initialized = TRUE], Return(c, "none"))
         ELSE Go(w, Return(c, "not_initialized"))

\* createMemory that appends the new record to the cache
Drive_createMemory_record_append(w, c, adv) ==
  LET t == ReadClock(w, adv)
      memory == [id |-> w.nextId, text |-> c.text, tags |-> c.tags, media |-> c.att,
                 createdAt |-> t, updatedAt |-> t, userId |-> Drive_userIdOrEmpty(w.this)]
  IN Go([this |-> [w.this EXCEPT !.memories = Append(@, memory)],
         now |-> t, nextId |-> w.nextId + 1],
        [c EXCEPT !.val = memory, !.pc = "save_token"])

\* createMemory: the record construction, the prepend and the saveMemories call
Drive_createMemory_record(w, c, adv) ==
  LET t == ReadClock(w, adv)
      memory == [id |-> w.nextId, text |-> c.text, tags |-> c.tags, media |-> c.att,
                 createdAt |-> t, updatedAt |-> t, userId |-> Drive_userIdOrEmpty(w.this)]
  IN Go([this |-> [w.this EXCEPT !.memories = <<memory>> \o @],
         now |-> t, nextId |-> w.nextId + 1],
        [c EXCEPT !.val = memory, !.pc = "save_token"])

\* createMemory(input) that skips a file whose upload failed
Drive_createMemory_skipFailed(w, c, ev, adv) ==
  CASE c.pc = "start" ->
         IF ~ensureInitialized(w.this) THEN Go(w, Return(c, "not_initialized"))
         ELSE IF c.files = <<>> THEN Drive_createMemory_record(w, c, adv)
         ELSE Go(w, Request([c EXCEPT !.pc = "upload", !.i = 1], "uploadMedia", 1))
    [] c.pc = "upload" ->
         LET c1 == IF ev.ok THEN [c EXCEPT !.att = Append(@, ev.att)] ELSE c IN
         IF c.i < Len(c.files)
           THEN Go(w, Request([c1 EXCEPT !.i = c.i + 1], "uploadMedia", c.i + 1))
           ELSE Drive_createMemory_record(w, c1, adv)
    [] c.pc = "save" ->
         IF ev.ok THEN Go(w, Return(notifyListeners(w.this, c), "none"))
         ELSE Go(w, Return(c, "unknown"))

\* createMemory(input)
Drive_createMemory(w, c, ev, adv) ==
  CASE c.pc = "start" ->
         IF ~ensureInitialized(w.this) THEN Go(w, Return(c, "not_initialized"))
         ELSE IF c.files = <<>> THEN Drive_createMemory_record(w, c, adv)
         ELSE Go(w, Request([c EXCEPT !.pc = "upload", !.i = 1], "uploadMedia", 1))
    [] c.pc = "upload" ->
         IF ~ev.ok THEN Go(w, Return(c, "unknown"))
         ELSE LET c1 == [c EXCEPT !.att = Append(@, ev.att)] IN
              IF c.i < Len(c.files)
                THEN Go(w, Request([c1 EXCEPT !.i = c.i + 1], "uploadMedia", c.i + 1))
                ELSE Drive_createMemory_record(w, c1, adv)
    [] c.pc = "save" ->
         IF ev.ok THEN Go(w, Return(notifyListeners(w.this, c), "none"))
         ELSE Go(w, Return(c, "unknown"))

\* updateMemory that stores the new attachments in place of the media list
Drive_updateMemory_record_replace(w, c, adv) ==
  LET t == ReadClock(w, adv)
      updated == [c.existing EXCEPT
                    !.text = IF c.text # NoText THEN c.text ELSE @,
                    !.tags = IF c.tags # NoTags THEN c.tags ELSE @,
                    !.media = c.uploaded,
                    !.updatedAt = t]
  IN Go([w EXCEPT !.this.memories = SetAt(@, c.idx, updated), !.now = t],
        [c EXCEPT !.val = updated, !.pc = "save_token"])

\* updateMemory building the record from the media cached when it stores it
Drive_updateMemory_record_reread(w, c, adv) ==
  LET t == ReadClock(w, adv)
      updated == [c.existing EXCEPT
                    !.text = IF c.text # NoText THEN c.text ELSE @,
                    !.tags = IF c.tags # NoTags THEN c.tags ELSE @,
                    !.media = w.this.memories[c.idx].media \o c.uploaded,
                    !.updatedAt = t]
  IN Go([w EXCEPT !.this.memories = SetAt(@, c.idx, updated), !.now = t],
        [c EXCEPT !.val = updated, !.pc = "save_token"])

\* updateMemory: the updated record, the in-place store and the saveMemories call
Drive_updateMemory_record(w, c, adv) ==
  LET t == ReadClock(w, adv)
      updated == [c.existing EXCEPT
                    !.text = IF c.text # NoText THEN c.text ELSE @,
                    !.tags = IF c.tags # NoTags THEN c.tags ELSE @,
                    !.media = c.att,
                    !.updatedAt = t]
  IN Go([w EXCEPT !.this.memories = SetAt(@, c.idx, updated), !.now = t],
        [c EXCEPT !.val = updated, !.pc = "save_token"])

\* updateMemory(memoryId, updates, newMediaFiles)
Drive_updateMemory(w, c, ev, adv) ==
  CASE c.pc = "start" ->
         IF ~ensureInitialized(w.this) THEN Go(w, Return(c, "not_initialized"))
         ELSE LET existingIndex == FindIndex(w.this.memories, c.id) IN
              IF existingIndex = 0 THEN Go(w, Return(c, "not_found"))
              ELSE LET c1 == [c EXCEPT !.idx = existingIndex,
                                       !.existing = w.this.memories[existingIndex],
                                       !.att = w.this.memories[existingIndex].media]
                   IN IF c.files # <<>>
                        THEN Go(w, Request([c1 EXCEPT !.pc = "upload", !.i = 1], "uploadMedia", 1))
                        ELSE Drive_updateMemory_record(w, c1, adv)
    [] c.pc = "upload" ->
         IF ~ev.ok THEN Go(w, Return(c, ev.err))
         ELSE LET c1 == [c EXCEPT !.att = Append(@, ev.att)] IN
              IF c.i < Len(c.files)
                THEN Go(w, Request([c1 EXCEPT !.i = c.i + 1], "uploadMedia", c.i + 1))
                ELSE Drive_updateMemory_record(w, c1, adv)
    [] c.pc = "save" ->
         IF ev.ok THEN Go(w, Return(notifyListeners(w.this, c), "none"))
         ELSE Go(w, Return(c, IF ev.err = "Error" THEN "unknown" ELSE ev.err))

\* deleteMemory: the filter and the saveMemories call
Drive_deleteMemory_record(w, c) ==
  Go([w EXCEPT !.this.memories = FilterOut(@, c.id)], [c EXCEPT !.pc = "save_token"])

\* deleteMemory(memoryId) without the .catch on deleteMedia
Drive_deleteMemory_propagate(w, c, ev, adv) ==
  CASE c.pc = "start" ->
         IF ~ensureInitialized(w.this) THEN Go(w, Return(c, "not_initialized"))
         ELSE LET memory == getMemory(w.this, c.id) IN
              IF memory # NoMemory /\ memory.media # <<>>
                THEN Go(w, Request([c EXCEPT !.existing = memory, !.i = 1,
                                             !.path = memory.media[1].storagePath,
                                             !.pc = "deleteMedia"],
                                   "deleteMedia", memory.media[1].id))
                ELSE Drive_deleteMemory_record(w, c)
    [] c.pc = "deleteMedia" ->
         IF ~ev.ok THEN Go(w, Return(c, "unknown"))
         ELSE IF c.i < Len(c.existing.media)
           THEN Go(w, Request([c EXCEPT !.i = c.i + 1,
                                        !.path = c.existing.media[c.i + 1].storagePath],
                              "deleteMedia", c.existing.media[c.i + 1].id))
           ELSE Drive_deleteMemory_record(w, c)
    [] c.pc = "save" ->
         IF ev.ok THEN Go(w, Return(notifyListeners(w.this, c), "none"))
         ELSE Go(w, Return(c, "unknown"))

\* deleteMemory(memoryId)
Drive_deleteMemory(w, c, ev, adv) ==
  CASE c.pc = "start" ->
         IF ~ensureInitialized(w.this) THEN Go(w, Return(c, "not_initialized"))
         ELSE LET memory == getMemory(w.this, c.id) IN
              IF memory # NoMemory /\ memory.media # <<>>
                THEN Go(w, Request([c EXCEPT !.existing = memory, !.i = 1,
                                             !.path = memory.media[1].storagePath,
                                             !.pc = "deleteMedia"],
                                   "deleteMedia", memory.media[1].id))
                ELSE Drive_deleteMemory_record(w, c)
    [] c.pc = "deleteMedia" ->
         \* .catch(() => {}): the outcome is dropped
         IF c.i < Len(c.existing.media)
           THEN Go(w, Request([c EXCEPT !.i = c.i + 1,
                                        !.path = c.existing.media[c.i + 1].storagePath],
                              "deleteMedia", c.existing.media[c.i + 1].id))
           ELSE Drive_deleteMemory_record(w, c)
    [] c.pc = "save" ->
         IF ev.ok THEN Go(w, Return(notifyListeners(w.this, c), "none"))
         ELSE Go(w, Return(c, "unknown"))

\* removeMediaFromMemory: the filtered media list, the store and the save call
Drive_removeMediaFromMemory_record(w, c) ==
  LET updatedMedia == FilterOut(c.existing.media, c.mediaId)
      memoryIndex == FindIndex(w.this.memories, c.id)
  IN Go([w EXCEPT !.this.memories =
             SetAt(@, memoryIndex, [c.existing EXCEPT !.media = updatedMedia])],
        [c EXCEPT !.pc = "save_token"])

\* removeMediaFromMemory that lets a failed deleteMedia end the operation
Drive_removeMediaFromMemory_strict(w, c, ev, adv) ==
  CASE c.pc = "start" ->
         IF ~ensureInitialized(w.this) THEN Go(w, Return(c, "not_initialized"))
         ELSE LET memory == getMemory(w.this, c.id) IN
              IF memory = NoMemory THEN Go(w, Return(c, "not_found"))
              ELSE LET k == FindIndex(memory.media, c.mediaId)
                       c1 == [c EXCEPT !.existing = memory]
                   IN IF k # 0
                        THEN Go(w, Request([c1 EXCEPT !.path = memory.media[k].storagePath,
                                                      !.pc = "deleteMedia"],
                                           "deleteMedia", c.mediaId))
                        ELSE Drive_removeMediaFromMemory_record(w, c1)
    [] c.pc = "deleteMedia" ->
         IF ~ev.ok THEN Go(w, Return(c, ev.err))
         ELSE Drive_removeMediaFromMemory_record(w, c)
    [] c.pc = "save" ->
         IF ev.ok THEN Go(w, Return(notifyListeners(w.this, c), "none"))
         ELSE Go(w, Return(c, ev.err))

\* removeMediaFromMemory(memoryId, mediaId)
Drive_removeMediaFromMemory(w, c, ev, adv) ==
  CASE c.pc = "start" ->
         IF ~ensureInitialized(w.this) THEN Go(w, Return(c, "not_initialized"))
         ELSE LET memory == getMemory(w.this, c.id) IN
              IF memory = NoMemory THEN Go(w, Return(c, "not_found"))
              ELSE LET k == FindIndex(memory.media, c.mediaId)
                       c1 == [c EXCEPT !.existing = memory]
                   IN IF k # 0
                        THEN Go(w, Request([c1 EXCEPT !.path = memory.media[k].storagePath,
                                                      !.pc = "deleteMedia"],
                                           "deleteMedia", c.mediaId))
                        ELSE Drive_removeMediaFromMemory_record(w, c1)
    [] c.pc = "deleteMedia" -> Drive_removeMediaFromMemory_record(w, c)
    [] c.pc = "save" ->
         IF ev.ok THEN Go(w, Return(notifyListeners(w.this, c), "none"))
         ELSE Go(w, Return(c, ev.err))

\* uploadMedia(file), called directly
Drive_uploadMedia(w, c, ev, adv) ==
  CASE c.pc = "start" ->
         IF ~ensureInitialized(w.this) THEN Go(w, Return(c, "not_initialized"))
         ELSE Go(w, [c EXCEPT !.pc = "upload", !.i = 1])
    [] c.pc = "upload" ->
         IF ev.ok THEN Go(w, Return([c EXCEPT !.att = <<ev.att>>], "none"))
         ELSE Go(w, Return(c, ev.err))

\* deleteMedia(mediaId, storagePath), called directly
Drive_deleteMedia(w, c, ev, adv) ==
  CASE c.pc = "start" ->
         IF ~ensureInitialized(w.this) THEN Go(w, Return(c, "not_initialized"))
         ELSE Go(w, [c EXCEPT !.pc = "deleteMedia"])
    [] c.pc = "deleteMedia" ->
         IF ev.ok THEN Go(w, Return(c, "none")) ELSE Go(w, Return(c, ev.err))

\* fetchChanges() that notifies the listeners before it awaits loadMemories
Drive_fetchChanges_early(w, c, ev, adv) ==
  CASE c.pc = "start" -> Go(w, notifyListeners(w.this, [c EXCEPT !.pc = "load"]))
    [] c.pc = "load" ->
         IF ev.ok THEN Go(w, Return(c, "none"))
         ELSE Go(w, Return(c, ev.err))

\* the value fetchChanges and forceSync return: the cache, or a SyncResult
\* whose downloaded is the cache's length
Synced(th, c) ==
  IF c.op = "forceSync"
    THEN [c EXCEPT !.sync = [success |-> TRUE, uploaded |-> 0,
                             downloaded |-> Len(th.memories),
                             conflicts |-> <<>>, errors |-> <<>>]]
    ELSE [c EXCEPT !.list = th.memories]

\* fetchChanges() and forceSync(): loadMemories, then notifyListeners
Drive_fetchChanges(w, c, ev, adv) ==
  CASE c.pc = "start" -> Go(w, [c EXCEPT !.pc = "load"])
    [] c.pc = "load" ->
         IF ev.ok THEN Go(w, Return(Synced(w.this, notifyListeners(w.this, c)), "none"))
         ELSE Go(w, Return(c, ev.err))


\* ---------------------------------------------------- CloudKitProvider

\* JSON.parse(text) of a text that parses: the value, an array or not
JSONparse(str) == [t |-> str.t, v |-> str.v]

\* recordToMemory: media = JSON.parse(record.media || '[]'), [] when it throws
recordToMemory_media(field) ==
  LET text == IF field.kind = "absent" \/ field.t = "" THEN JSONstringify(<<>>) ELSE field
  IN IF text.t = "garbage" THEN JSONparse(JSONstringify(<<>>)) ELSE JSONparse(text)

\* new Date(record.createdAt) of an ISO8601 string without fractional seconds
CK_parseDate(str) == str.isoSec * TicksPerSecond

\* recordToMemory(record)
recordToMemory(th, record) ==
  [id |-> record.id,
   text |-> IF record.text = NoText THEN "" ELSE record.text,
   tags |-> IF record.tags = NoTags THEN <<>> ELSE record.tags,
   media |-> LET media == recordToMemory_media(record.media)
             IN IF media.t = "array" THEN media.v ELSE media,
   createdAt |-> CK_parseDate(record.createdAt),
   updatedAt |-> CK_parseDate(record.updatedAt),
   userId |-> IF th.userId = "null" THEN "" ELSE th.userId]

\* this.memories.map((m) => m.id === memoryId ? memory : m)
ReplaceById(mems, id, memory) ==
  [j \in 1..Len(mems) |-> IF mems[j].id = id THEN memory ELSE mems[j]]

\* initialize(userId)
CK_initialize(w, c, ev, adv) ==
  CASE c.pc = "start" ->
         IF w.this.initialized /\ w.this.userId = c.u
           THEN Go(w, Return(c, "none"))
           ELSE Go(w, Request([c EXCEPT !.pc = "native_init"], "ck.initialize", 0))
    [] c.pc = "native_init" ->
         IF ev.ok
           THEN Go([w EXCEPT !.this.userId = c.u, !.this.initialized = TRUE],
                   Request([c EXCEPT !.pc = "fetch"], "ck.fetchMemories", 0))
           ELSE Go(w, Return(c, "not_initialized"))
    [] c.pc = "fetch" -> Go(w, Return(c, "none"))

\* createMemory: the CloudKitNative.saveMemory call
CK_createMemory_save(w, c) ==
  Go(w, Request([c EXCEPT !.body = JSONstringify(c.att), !.pc = "native_save"],
                "ck.saveMemory", 0))

\* createMemory(input)
CK_createMemory(w, c, ev, adv) ==
  CASE c.pc = "start" ->
         IF ~ensureInitialized(w.this) THEN Go(w, Return(c, "not_initialized"))
         ELSE IF c.files = <<>> THEN CK_createMemory_save(w, c)
         ELSE Go(w, Request([c EXCEPT !.pc = "upload", !.i = 1], "uploadMedia", 1))
    [] c.pc = "upload" ->
         IF ~ev.ok THEN Go(w, Return(c, "unknown"))
         ELSE LET c1 == [c EXCEPT !.att = Append(@, ev.att)] IN
              IF c.i < Len(c.files)
                THEN Go(w, Request([c1 EXCEPT !.i = c.i + 1], "uploadMedia", c.i + 1))
                ELSE CK_createMemory_save(w, c1)
    [] c.pc = "native_save" ->
         IF ~ev.ok THEN Go(w, Return(c, "unknown"))
         ELSE LET memory == recordToMemory(w.this, ev.rec)
                  th == [w.this EXCEPT !.memories = <<memory>> \o @]
              IN Go([w EXCEPT !.this = th],
                    Return(notifyListeners(th, [c EXCEPT !.val = memory]), "none"))

\* updateMemory: the CloudKitNative.updateMemory call
CK_updateMemory_update(w, c) ==
  Go(w, Request([c EXCEPT !.body = JSONstringify(c.att), !.pc = "native_update"],
                "ck.updateMemory", 0))

\* updateMemory: mediaAttachments.push(attachment); mediaAttachments is the
\* cached memory's own media array when the memory was found
CK_updateMemory_push(w, c, attachment) ==
  LET k == FindIndex(w.this.memories, c.id) IN
  IF c.found /\ k # 0
    THEN [w EXCEPT !.this.memories[k].media = Append(c.att, attachment)]
    ELSE w

\* updateMemory(memoryId, updates, newMediaFiles)
CK_updateMemory(w, c, ev, adv) ==
  CASE c.pc = "start" ->
         IF ~ensureInitialized(w.this) THEN Go(w, Return(c, "not_initialized"))
         ELSE LET existing == getMemory(w.this, c.id)
                  c1 == [c EXCEPT !.found = existing # NoMemory,
                                  !.existing = existing,
                                  !.att = existing.media]
              IN IF c.files # <<>>
                   THEN Go(w, Request([c1 EXCEPT !.pc = "upload", !.i = 1], "uploadMedia", 1))
                   ELSE CK_updateMemory_update(w, c1)
    [] c.pc = "upload" ->
         IF ~ev.ok THEN Go(w, Return(c, "unknown"))
         ELSE LET c1 == [c EXCEPT !.att = Append(@, ev.att)]
                  w1 == CK_updateMemory_push(w, c, ev.att)
              IN IF c.i < Len(c.files)
                   THEN Go(w1, Request([c1 EXCEPT !.i = c.i + 1], "uploadMedia", c.i + 1))
                   ELSE CK_updateMemory_update(w1, c1)
    [] c.pc = "native_update" ->
         IF ~ev.ok THEN Go(w, Return(c, "unknown"))
         ELSE LET memory == recordToMemory(w.this, ev.rec)
                  th == [w.this EXCEPT !.memories = ReplaceById(@, c.id, memory)]
              IN Go([w EXCEPT !.this = th],
                    Return(notifyListeners(th, [c EXCEPT !.val = memory]), "none"))

\* deleteMemory: the CloudKitNative.deleteMemory call
CK_deleteMemory_delete(w, c) ==
  Go(w, Request([c EXCEPT !.pc = "native_delete"], "ck.deleteMemory", 0))

\* deleteMemory(memoryId)
CK_deleteMemory(w, c, ev, adv) ==
  CASE c.pc = "start" ->
         IF ~ensureInitialized(w.this) THEN Go(w, Return(c, "not_initialized"))
         ELSE LET memory == getMemory(w.this, c.id) IN
              IF memory # NoMemory /\ memory.media # <<>>
                THEN Go(w, Request([c EXCEPT !.existing = memory, !.i = 1,
                                             !.path = memory.media[1].storagePath,
                                             !.pc = "deleteMedia"],
                                   "deleteMedia", memory.media[1].id))
                ELSE CK_deleteMemory_delete(w, c)
    [] c.pc = "deleteMedia" ->
         \* .catch(() => {}): the outcome is dropped
         IF c.i < Len(c.existing.media)
           THEN Go(w, Request([c EXCEPT !.i = c.i + 1,
                                        !.path = c.existing.media[c.i + 1].storagePath],
                              "deleteMedia", c.existing.media[c.i + 1].id))
           ELSE CK_deleteMemory_delete(w, c)
    [] c.pc = "native_delete" ->
         IF ~ev.ok THEN Go(w, Return(c, "unknown"))
         ELSE LET th == [w.this EXCEPT !.memories = FilterOut(@, c.id)] IN
              Go([w EXCEPT !.this = th], Return(notifyListeners(th, c), "none"))

\* removeMediaFromMemory: the filtered list and the CloudKitNative.updateMemory call
CK_removeMediaFromMemory_update(w, c) ==
  LET updatedMedia == FilterOut(c.existing.media, c.mediaId) IN
  Go(w, Request([c EXCEPT !.att = updatedMedia, !.body = JSONstringify(updatedMedia),
                          !.pc = "native_update"],
                "ck.updateMemory", 0))

\* removeMediaFromMemory(memoryId, mediaId)
CK_removeMediaFromMemory(w, c, ev, adv) ==
  CASE c.pc = "start" ->
         IF ~ensureInitialized(w.this) THEN Go(w, Return(c, "not_initialized"))
         ELSE LET memory == getMemory(w.this, c.id) IN
              IF memory = NoMemory THEN Go(w, Return(c, "not_found"))
              ELSE LET k == FindIndex(memory.media, c.mediaId)
                       c1 == [c EXCEPT !.existing = memory]
                   IN IF k # 0
                        THEN Go(w, Request([c1 EXCEPT !.path = memory.media[k].storagePath,
                                                      !.pc = "deleteMedia"],
                                           "deleteMedia", c.mediaId))
                        ELSE CK_removeMediaFromMemory_update(w, c1)
    [] c.pc = "deleteMedia" -> CK_removeMediaFromMemory_update(w, c)
    [] c.pc = "native_update" ->
         IF ~ev.ok THEN Go(w, Return(c, "Error"))
         ELSE LET th == [w.this EXCEPT !.memories =
                           [j \in 1..Len(@) |->
                              IF @[j].id = c.id THEN [@[j] EXCEPT !.media = c.att] ELSE @[j]]]
              IN Go([w EXCEPT !.this = th], Return(notifyListeners(th, c), "none"))

\* uploadMedia(file), called directly
CK_uploadMedia(w, c, ev, adv) ==
  CASE c.pc = "start" ->
         IF ~ensureInitialized(w.this) THEN Go(w, Return(c, "not_initialized"))
         ELSE Go(w, [c EXCEPT !.pc = "upload", !.i = 1])
    [] c.pc = "upload" ->
         IF ev.ok THEN Go(w, Return([c EXCEPT !.att = <<ev.att>>], "none"))
         ELSE Go(w, Return(c, "unknown"))

\* deleteMedia(mediaId, storagePath), called directly
CK_deleteMedia(w, c, ev, adv) ==
  CASE c.pc = "start" ->
         IF ~ensureInitialized(w.this) THEN Go(w, Return(c, "not_initialized"))
         ELSE Go(w, [c EXCEPT !.pc = "deleteMedia"])
    [] c.pc = "deleteMedia" ->
         IF ev.ok THEN Go(w, Return(c, "none")) ELSE Go(w, Return(c, "unknown"))

\* fetchChanges() and forceSync(): fetchAndNotify, which never throws
CK_fetchChanges(w, c, ev, adv) ==
  CASE c.pc = "start" -> Go(w, Request([c EXCEPT !.pc = "fetch"], "ck.fetchMemories", 0))
    [] c.pc = "fetch" -> Go(w, Return(Synced(w.this, c), "none"))

\* ------------------------------------------------------------- dispatch
Drive_step(w, c, ev, adv) ==
  CASE c.op = "initialize" -> Drive_initialize(w, c, ev, adv)
    [] c.op = "createMemory" -> Drive_createMemory(w, c, ev, adv)
    [] c.op = "updateMemory" -> Drive_updateMemory(w, c, ev, adv)
    [] c.op = "deleteMemory" -> Drive_deleteMemory(w, c, ev, adv)
    [] c.op = "removeMediaFromMemory" -> Drive_removeMediaFromMemory(w, c, ev, adv)
    [] c.op = "uploadMedia" -> Drive_uploadMedia(w, c, ev, adv)
    [] c.op = "deleteMedia" -> Drive_deleteMedia(w, c, ev, adv)
    [] c.op \in {"fetchChanges", "forceSync"} -> Drive_fetchChanges(w, c, ev, adv)
    [] c.op = "subscribeToChanges" -> Provider_subscribeToChanges(w, c)
    [] c.op = "unsubscribe" -> Provider_unsubscribe(w, c)

CK_step(w, c, ev, adv) ==
  CASE c.op = "initialize" -> CK_initialize(w, c, ev, adv)
    [] c.op = "createMemory" -> CK_createMemory(w, c, ev, adv)
    [] c.op = "updateMemory" -> CK_updateMemory(w, c, ev, adv)
    [] c.op = "deleteMemory" -> CK_deleteMemory(w, c, ev, adv)
    [] c.op = "removeMediaFromMemory" -> CK_removeMediaFromMemory(w, c, ev, adv)
    [] c.op = "uploadMedia" -> CK_uploadMedia(w, c, ev, adv)
    [] c.op = "deleteMedia" -> CK_deleteMedia(w, c, ev, adv)
    [] c.op \in {"fetchChanges", "forceSync"} -> CK_fetchChanges(w, c, ev, adv)
    [] c.op = "subscribeToChanges" -> Provider_subscribeToChanges(w, c)
    [] c.op = "unsubscribe" -> Provider_unsubscribe(w, c)

Step(w, c, ev, adv) ==
  IF provider = "googledrive" THEN Drive_step(w, c, ev, adv) ELSE CK_step(w, c, ev, adv)


\* ------------------------------------------------------------ operations
StartEvent == Event("start", TRUE, "none")

\* an operation is called: the handler runs up to its first await
Call(c0, adv) ==
  \E slot \in Slots :
    /\ calls[slot] = NoCall
    /\ \A s \in Slots : s < slot => calls[s] # NoCall
    /\ overlap \/ \A s \in Slots : calls[s] = NoCall
    /\ Commit(slot, Step(World,
                         [c0 EXCEPT !.pc = "start", !.pre = this, !.preNow = now,
                                    !.preOk = hist.okInit, !.preLast = hist.lastInit],
                         StartEvent, adv))
    /\ UNCHANGED <<overlap, remote, nextMedia>>

\* a caller of the application invokes an operation
Invoke(c0, adv) ==
  /\ ncalls < MaxCalls
  /\ ncalls' = ncalls + 1
  /\ Call(c0, adv)
  /\ UNCHANGED <<provider, mig, others>>

initialize(userId) ==
  Invoke([NoCall EXCEPT !.op = "initialize", !.u = userId], 0)

createMemory(input) ==
  /\ nextId <= MaxMemoryIds
  /\ nextMedia + Len(input.mediaFiles) <= MaxMediaIds + 1
  /\ \E adv \in 0..1 :
       Invoke([NoCall EXCEPT !.op = "createMemory", !.text = input.text,
                             !.tags = input.tags, !.files = input.mediaFiles], adv)

updateMemory(memoryId, updates, newMediaFiles) ==
  /\ nextMedia + Len(newMediaFiles) <= MaxMediaIds + 1
  /\ \E adv \in 0..1 :
       Invoke([NoCall EXCEPT !.op = "updateMemory", !.id = memoryId,
                             !.text = updates.text, !.tags = updates.tags,
                             !.files = newMediaFiles], adv)

deleteMemory(memoryId) ==
  Invoke([NoCall EXCEPT !.op = "deleteMemory", !.id = memoryId], 0)

removeMediaFromMemory(memoryId, mediaId) ==
  Invoke([NoCall EXCEPT !.op = "removeMediaFromMemory", !.id = memoryId,
                        !.mediaId = mediaId], 0)

uploadMedia(file) ==
  /\ nextMedia <= MaxMediaIds
  /\ Invoke([NoCall EXCEPT !.op = "uploadMedia", !.files = <<file>>], 0)

deleteMedia(mediaId) ==
  Invoke([NoCall EXCEPT !.op = "deleteMedia", !.mediaId = mediaId,
                        !.path = [store |-> "any", id |-> mediaId, ext |-> ""]], 0)

subscribeToChanges(callback) ==
  Invoke([NoCall EXCEPT !.op = "subscribeToChanges", !.cb = callback], 0)

\* the caller uses the unsubscribe function a subscribeToChanges call returned
unsubscribe(callback) ==
  /\ callback \in Range(this.changeListeners)
  /\ callback \notin Throwing
  /\ Invoke([NoCall EXCEPT !.op = "unsubscribe", !.cb = callback], 0)

fetchChanges == Invoke([NoCall EXCEPT !.op = "fetchChanges"], 0)

forceSync == Invoke([NoCall EXCEPT !.op = "forceSync"], 0)

\* -------------------------------- GoogleDriveProvider: awaited helpers
Awaiting(slot, label, prov) ==
  /\ provider = prov
  /\ calls[slot].pc = label

At(c, label) == [c EXCEPT !.pc = label]

\* getAccessToken() found no token and the refresh gave none: it throws
\* StorageError(not_authenticated) and no request is sent
NoToken(c) == Resolved(c, "getAccessToken", 0, FALSE)

\* findOrCreateMemoriesFile(): the search request resolves
Drive_findOrCreateMemoriesFile_search ==
  \E slot \in Slots, outcome \in {"ok", "fail", "noToken"} :
    LET c == calls[slot] IN
    /\ Awaiting(slot, "search", "googledrive")
    /\ CASE outcome = "noToken" ->
              Commit(slot, Step(World, At(NoToken(c), "findOrCreate"),
                                Event("findOrCreate", FALSE, "not_authenticated"), 0))
         [] outcome = "fail" ->
              Commit(slot, Step(World, At(Resolved(c, "drive.search", 0, FALSE), "findOrCreate"),
                                Event("findOrCreate", FALSE, "Error"), 0))
         [] outcome = "ok" /\ remote.files # <<>> ->
              Commit(slot, Step([World EXCEPT !.this.memoriesFileId = 1],
                                At(Resolved(c, "drive.search", 0, TRUE), "findOrCreate"),
                                Event("findOrCreate", TRUE, "none"), 0))
         [] outcome = "ok" /\ remote.files = <<>> ->
              Commit(slot, Go(World, At(Resolved(c, "drive.search", 0, TRUE), "create")))
    /\ UNCHANGED <<provider, overlap, remote, nextMedia, ncalls, mig, others>>

\* findOrCreateMemoriesFile(): the create request resolves
Drive_findOrCreateMemoriesFile_create ==
  \E slot \in Slots, outcome \in {"ok", "fail"} :
    LET c == calls[slot] IN
    /\ Awaiting(slot, "create", "googledrive")
    /\ IF outcome = "ok"
         THEN /\ remote' = [remote EXCEPT !.files = Append(@, [text |-> "empty", memories |-> <<>>])]
              /\ Commit(slot, Go([World EXCEPT !.this.memoriesFileId = Len(remote.files) + 1],
                                 At(Resolved(c, "drive.create", 0, TRUE), "save_token")))
         ELSE /\ UNCHANGED remote
              /\ Commit(slot, Step(World, At(Resolved(c, "drive.create", 0, FALSE), "findOrCreate"),
                                   Event("findOrCreate", FALSE, "Error"), 0))
    /\ UNCHANGED <<provider, overlap, nextMedia, ncalls, mig, others>>

\* the await a saveMemories() call resumes: findOrCreateMemoriesFile's in
\* initialize, the handler's own otherwise
SaveLabel(c) == IF c.op = "initialize" THEN "findOrCreate" ELSE "save"

\* saveMemories(): up to the PATCH request, whose body is this.memories then
Drive_saveMemories_send ==
  \E slot \in Slots, outcome \in {"token", "noToken"} :
    LET c == calls[slot] IN
    /\ Awaiting(slot, "save_token", "googledrive")
    /\ IF this.memoriesFileId = 0
         THEN Commit(slot, Step(World, At(c, SaveLabel(c)),
                                Event(SaveLabel(c), TRUE, "none"), 0))
         ELSE IF outcome = "noToken"
           THEN Commit(slot, Step(World, At(NoToken(c), SaveLabel(c)),
                                  Event(SaveLabel(c), FALSE, "not_authenticated"), 0))
           ELSE Commit(slot, Go(World, [c EXCEPT !.pc = "save_wait",
                                                 !.body = Drive_stringify(this.memories),
                                                 !.fid = this.memoriesFileId]))
    /\ UNCHANGED <<provider, overlap, remote, nextMedia, ncalls, mig, others>>

\* saveMemories(): the PATCH resolves; the server has overwritten the document
Drive_saveMemories_done ==
  \E slot \in Slots, outcome \in {"ok", "fail"} :
    LET c == calls[slot] IN
    /\ Awaiting(slot, "save_wait", "googledrive")
    /\ IF outcome = "ok"
         THEN /\ remote' = [remote EXCEPT !.files[c.fid] = [text |-> "json", memories |-> c.body]]
              /\ Commit(slot, Step(World, At(Resolved(c, "drive.patch", 0, TRUE), SaveLabel(c)),
                                   Event(SaveLabel(c), TRUE, "none"), 0))
         ELSE /\ UNCHANGED remote
              /\ Commit(slot, Step(World, At(Resolved(c, "drive.patch", 0, FALSE), SaveLabel(c)),
                                   Event(SaveLabel(c), FALSE, "Error"), 0))
    /\ UNCHANGED <<provider, overlap, nextMedia, ncalls, mig, others>>

\* loadMemories(): the download resolves and this.memories is replaced
Drive_loadMemories_done ==
  \E slot \in Slots, outcome \in {"ok", "gone", "fail", "noToken"} :
    LET c == calls[slot] IN
    /\ Awaiting(slot, "load", "googledrive")
    /\ IF this.memoriesFileId = 0
         THEN Commit(slot, Step(World, c, Event("load", TRUE, "none"), 0))
         ELSE CASE outcome = "noToken" ->
                     Commit(slot, Step(World, NoToken(c),
                                       Event("load", FALSE, "not_authenticated"), 0))
                [] outcome = "gone" ->
                     \* response.status === 404: this.memories = []
                     Commit(slot, Step([World EXCEPT !.this.memories = <<>>],
                                       Resolved(c, "drive.get", 404, TRUE),
                                       Event("load", TRUE, "none"), 0))
                [] outcome = "fail" ->
                     Commit(slot, Step(World, Resolved(c, "drive.get", 0, FALSE),
                                       Event("load", FALSE, "Error"), 0))
                [] outcome = "ok" ->
                     Commit(slot, Step([World EXCEPT !.this.memories =
                                          Drive_parse(remote.files[this.memoriesFileId])],
                                       Resolved(c, "drive.get", 0, TRUE),
                                       Event("load", TRUE, "none"), 0))
    /\ UNCHANGED <<provider, overlap, remote, nextMedia, ncalls, mig, others>>

\* uploadMedia(file): the multipart upload resolves
Drive_uploadMedia_done ==
  \E slot \in Slots, outcome \in {"ok", "fail", "noToken"}, adv \in 0..1 :
    LET c == calls[slot]
        file == c.files[c.i]
        fileId == nextMedia
        attachment == [id |-> fileId, type |-> mediaTypeOf(file), fileName |-> file.name,
                       storagePath |-> [store |-> "drive", id |-> fileId, ext |-> ""]]
    IN
    /\ Awaiting(slot, "upload", "googledrive")
    /\ CASE outcome = "noToken" ->
              /\ Commit(slot, Step(World, NoToken(c), Event("upload", FALSE, "unknown"), 0))
              /\ UNCHANGED nextMedia
         [] outcome = "fail" ->
              /\ Commit(slot, Step(World, Resolved(c, "drive.upload", c.i, FALSE),
                                   Event("upload", FALSE, "unknown"), 0))
              /\ UNCHANGED nextMedia
         [] outcome = "ok" ->
              /\ Commit(slot, Step(World,
                                   [Resolved(c, "drive.upload", c.i, TRUE) EXCEPT
                                      !.uploaded = Append(@, attachment)],
                                   [Event("upload", TRUE, "none") EXCEPT !.att = attachment],
                                   adv))
              /\ nextMedia' = nextMedia + 1
    /\ UNCHANGED <<provider, overlap, remote, ncalls, mig, others>>

\* deleteMedia(mediaId, storagePath): the DELETE resolves; 404 counts as done
Drive_deleteMedia_done ==
  \E slot \in Slots, outcome \in {"ok", "gone", "fail", "noToken"} :
    LET c == calls[slot] IN
    /\ Awaiting(slot, "deleteMedia", "googledrive")
    /\ CASE outcome = "noToken" ->
              Commit(slot, Step(World, NoToken(c), Event("deleteMedia", FALSE, "unknown"), 0))
         [] outcome = "fail" ->
              Commit(slot, Step(World, Resolved(c, "drive.delete", c.path.id, FALSE),
                                Event("deleteMedia", FALSE, "unknown"), 0))
         [] outcome \in {"ok", "gone"} ->
              Commit(slot, Step(World, Resolved(c, "drive.delete", c.path.id, TRUE),
                                Event("deleteMedia", TRUE, "none"), 0))
    /\ UNCHANGED <<provider, overlap, remote, nextMedia, ncalls, mig, others>>

\* ------------------------------------- CloudKitPlugin: native calls resolve

\* ISO8601DateFormatter().string(from:): whole seconds
ISO8601(t) == [isoSec |-> t \div TicksPerSecond]

\* recordToDict(record)
recordToDict(record) ==
  [id |-> record.id, text |-> record.text, tags |-> record.tags, media |-> record.media,
   createdAt |-> ISO8601(record.createdAt), updatedAt |-> ISO8601(record.updatedAt)]

\* the orders a query sorted by createdAt descending can deliver the records in
FetchOrders(records) ==
  {p \in [1..Len(records) -> 1..Len(records)] :
     /\ \A i, j \in 1..Len(records) : i # j => p[i] # p[j]
     /\ \A i \in 1..(Len(records) - 1) :
          records[p[i]].createdAt >= records[p[i + 1]].createdAt}

\* CloudKitPlugin.initialize: createZoneIfNeeded saves the zone on every call
CK_initialize_done ==
  \E slot \in Slots, outcome \in {"ok", "fail"} :
    LET c == calls[slot] IN
    /\ Awaiting(slot, "native_init", "cloudkit")
    /\ IF outcome = "ok"
         THEN /\ remote' = [remote EXCEPT !.zone = TRUE, !.zoneSaves = @ + 1]
              /\ Commit(slot, Step(World, Resolved(c, "ck.initialize", 0, TRUE),
                                   Event("native_init", TRUE, "none"), 0))
         ELSE /\ UNCHANGED remote
              /\ Commit(slot, Step(World, Resolved(c, "ck.initialize", 0, FALSE),
                                   Event("native_init", FALSE, "Error"), 0))
    /\ UNCHANGED <<provider, overlap, nextMedia, ncalls, mig, others>>

\* fetchAndNotify() with a catch block that tells the listeners
CK_fetchAndNotify_announce ==
  \E slot \in Slots, outcome \in {"ok", "fail"} :
    LET c == calls[slot] IN
    /\ Awaiting(slot, "fetch", "cloudkit")
    /\ IF outcome = "ok"
         THEN \E p \in FetchOrders(remote.records) :
                LET th == [this EXCEPT !.memories =
                             [j \in 1..Len(remote.records) |->
                                recordToMemory(this, recordToDict(remote.records[p[j]]))]]
                IN Commit(slot, Step([World EXCEPT !.this = th],
                                     notifyListeners(th, Resolved(c, "ck.fetchMemories", 0, TRUE)),
                                     Event("fetch", TRUE, "none"), 0))
         ELSE Commit(slot, Step(World,
                                notifyListeners(this, Resolved(c, "ck.fetchMemories", 0, FALSE)),
                                Event("fetch", TRUE, "none"), 0))
    /\ UNCHANGED <<provider, overlap, remote, nextMedia, ncalls, mig, others>>

\* fetchAndNotify(): CloudKitPlugin.fetchMemories resolves; a failure is logged
CK_fetchAndNotify_done ==
  \E slot \in Slots, outcome \in {"ok", "fail"} :
    LET c == calls[slot] IN
    /\ Awaiting(slot, "fetch", "cloudkit")
    /\ IF outcome = "ok"
         THEN \E p \in FetchOrders(remote.records) :
                LET th == [this EXCEPT !.memories =
                             [j \in 1..Len(remote.records) |->
                                recordToMemory(this, recordToDict(remote.records[p[j]]))]]
                IN Commit(slot, Step([World EXCEPT !.this = th],
                                     notifyListeners(th, Resolved(c, "ck.fetchMemories", 0, TRUE)),
                                     Event("fetch", TRUE, "none"), 0))
         ELSE Commit(slot, Step(World, Resolved(c, "ck.fetchMemories", 0, FALSE),
                                Event("fetch", TRUE, "none"), 0))
    /\ UNCHANGED <<provider, overlap, remote, nextMedia, ncalls, mig, others>>

\* uploadMedia(file): fileToBase64 and CloudKitPlugin.uploadMedia resolve
CK_uploadMedia_done ==
  \E slot \in Slots, outcome \in {"ok", "fail"} :
    LET c == calls[slot]
        file == c.files[c.i]
        fileId == nextMedia
        attachment == [id |-> fileId, type |-> mediaTypeOf(file), fileName |-> file.name,
                       storagePath |-> [store |-> "media", id |-> fileId, ext |-> file.name.ext]]
    IN
    /\ Awaiting(slot, "upload", "cloudkit")
    /\ IF outcome = "ok"
         THEN /\ Commit(slot, Step(World,
                                   [Resolved(c, "ck.uploadMedia", c.i, TRUE) EXCEPT
                                      !.uploaded = Append(@, attachment)],
                                   [Event("upload", TRUE, "none") EXCEPT !.att = attachment], 0))
              /\ nextMedia' = nextMedia + 1
         ELSE /\ Commit(slot, Step(World, Resolved(c, "ck.uploadMedia", c.i, FALSE),
                                   Event("upload", FALSE, "unknown"), 0))
              /\ UNCHANGED nextMedia
    /\ UNCHANGED <<provider, overlap, remote, ncalls, mig, others>>

\* deleteMedia(mediaId, storagePath): CloudKitPlugin.deleteMedia resolves
CK_deleteMedia_done ==
  \E slot \in Slots, outcome \in {"ok", "fail"} :
    LET c == calls[slot] IN
    /\ Awaiting(slot, "deleteMedia", "cloudkit")
    /\ Commit(slot, Step(World, Resolved(c, "ck.deleteMedia", c.path.id, outcome = "ok"),
                         Event("deleteMedia", outcome = "ok",
                               IF outcome = "ok" THEN "none" ELSE "unknown"), 0))
    /\ UNCHANGED <<provider, overlap, remote, nextMedia, ncalls, mig, others>>

\* CloudKitPlugin.saveMemory that reads the clock for updatedAt before createdAt
CK_saveMemory_done_swapped ==
  \E slot \in Slots, outcome \in {"ok", "fail"}, adv1 \in 0..1, adv2 \in 0..1 :
    LET c == calls[slot]
        t1 == ReadClock(World, adv1)
        t2 == ReadClock([World EXCEPT !.now = t1], adv2)
        record == [id |-> nextId, text |-> c.text, tags |-> c.tags, media |-> c.body,
                   createdAt |-> t2, updatedAt |-> t1]
    IN
    /\ Awaiting(slot, "native_save", "cloudkit")
    /\ IF outcome = "ok"
         THEN /\ remote' = [remote EXCEPT !.records = Append(@, record)]
              /\ Commit(slot, Step([World EXCEPT !.now = t2, !.nextId = nextId + 1],
                                   Resolved(c, "ck.saveMemory", 0, TRUE),
                                   [Event("native_save", TRUE, "none") EXCEPT
                                      !.rec = recordToDict(record)], 0))
         ELSE /\ UNCHANGED remote
              /\ Commit(slot, Step(World, Resolved(c, "ck.saveMemory", 0, FALSE),
                                   Event("native_save", FALSE, "Error"), 0))
    /\ UNCHANGED <<provider, overlap, nextMedia, ncalls, mig, others>>

\* CloudKitPlugin.saveMemory: a new record, createdAt and updatedAt from Date()
CK_saveMemory_done ==
  \E slot \in Slots, outcome \in {"ok", "fail"}, adv1 \in 0..1, adv2 \in 0..1 :
    LET c == calls[slot]
        t1 == ReadClock(World, adv1)
        t2 == ReadClock([World EXCEPT !.now = t1], adv2)
        record == [id |-> nextId, text |-> c.text, tags |-> c.tags, media |-> c.body,
                   createdAt |-> t1, updatedAt |-> t2]
    IN
    /\ Awaiting(slot, "native_save", "cloudkit")
    /\ IF outcome = "ok"
         THEN /\ remote' = [remote EXCEPT !.records = Append(@, record)]
              /\ Commit(slot, Step([World EXCEPT !.now = t2, !.nextId = nextId + 1],
                                   Resolved(c, "ck.saveMemory", 0, TRUE),
                                   [Event("native_save", TRUE, "none") EXCEPT
                                      !.rec = recordToDict(record)], 0))
         ELSE /\ UNCHANGED remote
              /\ Commit(slot, Step(World, Resolved(c, "ck.saveMemory", 0, FALSE),
                                   Event("native_save", FALSE, "Error"), 0))
    /\ UNCHANGED <<provider, overlap, nextMedia, ncalls, mig, others>>

\* CloudKitPlugin.saveMemory up to the completion of privateDatabase.save: the
\* record is in the zone, the response is not yet delivered to the caller
CK_saveMemory_commit ==
  \E slot \in Slots, outcome \in {"ok", "fail"}, adv1 \in 0..1, adv2 \in 0..1 :
    LET c == calls[slot]
        t1 == ReadClock(World, adv1)
        t2 == ReadClock([World EXCEPT !.now = t1], adv2)
        record == [id |-> nextId, text |-> c.text, tags |-> c.tags, media |-> c.body,
                   createdAt |-> t1, updatedAt |-> t2]
    IN
    /\ Awaiting(slot, "native_save", "cloudkit")
    /\ IF outcome = "ok"
         THEN /\ remote' = [remote EXCEPT !.records = Append(@, record)]
              /\ calls' = [calls EXCEPT ![slot] = [c EXCEPT !.pc = "native_saved",
                                                            !.rec = recordToDict(record)]]
              /\ now' = t2
              /\ nextId' = nextId + 1
              /\ UNCHANGED <<this, ret, hist>>
         ELSE /\ UNCHANGED remote
              /\ Commit(slot, Step(World, Resolved(c, "ck.saveMemory", 0, FALSE),
                                   Event("native_save", FALSE, "Error"), 0))
    /\ UNCHANGED <<provider, overlap, nextMedia, ncalls, mig, others>>

\* call.resolve(recordToDict(savedRecord)) reaches the caller: createMemory resumes
CK_saveMemory_response ==
  \E slot \in Slots :
    LET c == calls[slot] IN
    /\ Awaiting(slot, "native_saved", "cloudkit")
    /\ Commit(slot, Step(World,
                         Resolved([c EXCEPT !.pc = "native_save", !.rec = NoDict],
                                  "ck.saveMemory", 0, TRUE),
                         [Event("native_save", TRUE, "none") EXCEPT !.rec = c.rec], 0))
    /\ UNCHANGED <<provider, overlap, remote, nextMedia, ncalls, mig, others>>

\* CloudKitPlugin.updateMemory: fetch the record, set the given fields, save
CK_updateMemory_done ==
  \E slot \in Slots, outcome \in {"ok", "fail"}, adv \in 0..1 :
    LET c == calls[slot]
        k == FindIndex(remote.records, c.id)
        t == ReadClock(World, adv)
        record == [remote.records[k] EXCEPT
                     !.text = IF c.text # NoText THEN c.text ELSE @,
                     !.tags = IF c.tags # NoTags THEN c.tags ELSE @,
                     !.media = c.body,
                     !.updatedAt = t]
    IN
    /\ Awaiting(slot, "native_update", "cloudkit")
    /\ IF outcome = "ok" /\ k # 0
         THEN /\ remote' = [remote EXCEPT !.records[k] = record]
              /\ Commit(slot, Step([World EXCEPT !.now = t],
                                   Resolved(c, "ck.updateMemory", 0, TRUE),
                                   [Event("native_update", TRUE, "none") EXCEPT
                                      !.rec = recordToDict(record)], 0))
         ELSE /\ UNCHANGED remote
              /\ Commit(slot, Step(World, Resolved(c, "ck.updateMemory", 0, FALSE),
                                   Event("native_update", FALSE, "Error"), 0))
    /\ UNCHANGED <<provider, overlap, nextMedia, ncalls, mig, others>>

\* CloudKitPlugin.deleteMemory: delete the record
CK_deleteMemory_done ==
  \E slot \in Slots, outcome \in {"ok", "fail"} :
    LET c == calls[slot] IN
    /\ Awaiting(slot, "native_delete", "cloudkit")
    /\ IF outcome = "ok"
         THEN /\ remote' = [remote EXCEPT !.records = FilterOut(@, c.id)]
              /\ Commit(slot, Step(World, Resolved(c, "ck.deleteMemory", 0, TRUE),
                                   Event("native_delete", TRUE, "none"), 0))
         ELSE /\ UNCHANGED remote
              /\ Commit(slot, Step(World, Resolved(c, "ck.deleteMemory", 0, FALSE),
                                   Event("native_delete", FALSE, "Error"), 0))
    /\ UNCHANGED <<provider, overlap, nextMedia, ncalls, mig, others>>

\* ----------------------------------------------------- MigrationService

\* the legacy Firestore collection 'memories': two documents of user fb1 (one
\* with a stored attachment and one without a storagePath; one with no text,
\* tags or media field) and one document of another user
Firestore ==
  << [id |-> "L1", text |-> "trip", tags |-> <<"sea">>,
      media |-> << [id |-> "m1", type |-> "image",
                    fileName |-> [base |-> "shore", ext |-> "png"],
                    storagePath |-> "users/fb1/m1"],
                   [id |-> "m2", type |-> "audio",
                    fileName |-> [base |-> "waves", ext |-> "wav"],
                    storagePath |-> ""] >>,
      createdAt |-> 1, updatedAt |-> 1, userId |-> "fb1"],
     [id |-> "L2", text |-> NoText, tags |-> NoTags, media |-> <<>>,
      createdAt |-> 1, updatedAt |-> 1, userId |-> "fb1"],
     [id |-> "L3", text |-> "theirs", tags |-> <<>>, media |-> <<>>,
      createdAt |-> 1, updatedAt |-> 1, userId |-> "fb2"] >>

\* String.prototype.toLowerCase() of a file extension
toLowerCase(ext) ==
  CASE ext = "PNG" -> "png"
    [] ext = "MOV" -> "mov"
    [] ext = "Mp3" -> "mp3"
    [] OTHER -> ext

\* getMimeType that falls back to application/octet-stream for unknown extensions
getMimeType_octet(type, fileName) ==
  LET ext == toLowerCase(fileName.ext) IN
  CASE type = "image" ->
         [major |-> "image",
          minor |-> IF ext \in {"png", "gif", "webp"} THEN ext ELSE "jpeg"]
    [] type = "audio" /\ ext \in {"mp3", "wav", "ogg"} ->
         [major |-> "audio", minor |-> IF ext = "mp3" THEN "mpeg" ELSE ext]
    [] type = "video" /\ ext \in {"mp4", "webm", "mov"} ->
         [major |-> "video", minor |-> IF ext = "mov" THEN "quicktime" ELSE ext]
    [] OTHER -> [major |-> "application", minor |-> "octet-stream"]

\* getMimeType(type, fileName): by the extension within the media type
getMimeType(type, fileName) ==
  LET ext == toLowerCase(fileName.ext) IN
  CASE type = "image" ->
         [major |-> "image",
          minor |-> IF ext \in {"png", "gif", "webp"} THEN ext ELSE "jpeg"]
    [] type = "audio" ->
         [major |-> "audio",
          minor |-> IF ext \in {"wav", "ogg"} THEN ext ELSE "mpeg"]
    [] type = "video" ->
         [major |-> "video",
          minor |-> IF ext = "webm" THEN "webm"
                    ELSE IF ext = "mov" THEN "quicktime" ELSE "mp4"]
    [] OTHER -> [major |-> "application", minor |-> "octet-stream"]

\* updateProgress(progress): the callback, when one is set, receives the update
updateProgress(m, status, totalItems, completedItems, error) ==
  IF m.onProgress
    THEN [m EXCEPT !.progress =
            Append(m.progress, [status |-> status, totalItems |-> totalItems,
                                completedItems |-> completedItems, error |-> error])]
    ELSE m

\* what a run asks of the backends and what it got back; clean: no request
\* made on behalf of the call failed
Logged(m, name, arg, r, clean) ==
  [m EXCEPT !.log = Append(m.log, [e |-> name, a |-> arg, r |-> r, clean |-> clean])]

\* a step of the run: the service's state and the provider call it awaits next
Then(m, call) == [m |-> m, call |-> call]

\* performFullMigration: the catch block
performFullMigration_catch(m, message) ==
  Then([updateProgress(m, "error", 0, 0, message) EXCEPT
          !.pc = "done",
          !.result = [returned |-> TRUE, success |-> FALSE, migratedCount |-> 0,
                      error |-> message]],
       NoCall)

\* performFullMigration: importToNewPlatform has resolved
performFullMigration_imported(m) ==
  Then([m EXCEPT !.pc = "done",
                 !.result = [returned |-> TRUE, success |-> TRUE,
                             migratedCount |-> Len(m.memories), error |-> ""]],
       NoCall)

\* performFullMigration that goes on to importToNewPlatform when nothing was
\* exported
performFullMigration_exported_through(m) ==
  Then(Logged([(IF Len(m.memories) = 0 THEN updateProgress(m, "complete", 0, 0, "") ELSE m)
                 EXCEPT !.pc = "initialize"],
              "initialize", m.newUserId, "call", TRUE),
       [NoCall EXCEPT !.op = "initialize", !.u = m.newUserId])

\* performFullMigration: exportFromFirebase has resolved
performFullMigration_exported(m) ==
  IF Len(m.memories) = 0
    THEN Then([updateProgress(m, "complete", 0, 0, "") EXCEPT
                 !.pc = "done",
                 !.result = [returned |-> TRUE, success |-> TRUE, migratedCount |-> 0,
                             error |-> ""]],
              NoCall)
    ELSE Then(Logged([m EXCEPT !.pc = "initialize"], "initialize", m.newUserId, "call", TRUE),
              [NoCall EXCEPT !.op = "initialize", !.u = m.newUserId])

\* exportFromFirebase: the loop over snapshot.docs, from document d and its
\* attachment j up to the next getBlob or to the return
RECURSIVE exportFromFirebase_loop(_)
exportFromFirebase_loop(m) ==
  IF m.d > Len(m.docs) THEN performFullMigration_exported(m)
  ELSE LET memory == m.docs[m.d] IN
       IF m.j <= Len(memory.media)
         THEN IF memory.media[m.j].storagePath # ""
                THEN Then([updateProgress(m, "fetching", Len(m.docs), m.completedItems, "")
                             EXCEPT !.pc = "getBlob"],
                          NoCall)
                ELSE exportFromFirebase_loop([m EXCEPT !.j = m.j + 1])
         ELSE exportFromFirebase_loop(
                [updateProgress(m, "fetching", Len(m.docs), m.completedItems + 1, "")
                   EXCEPT !.memories = Append(m.memories, memory),
                          !.completedItems = m.completedItems + 1,
                          !.d = m.d + 1, !.j = 1])

\* exportFromFirebase: the Memory made of a document's data
exportFromFirebase_memory(doc) ==
  [id |-> doc.id,
   text |-> IF doc.text = NoText THEN "" ELSE doc.text,
   tags |-> IF doc.tags = NoTags THEN <<>> ELSE doc.tags,
   media |-> doc.media,
   createdAt |-> doc.createdAt, updatedAt |-> doc.updatedAt, userId |-> doc.userId]

\* importToNewPlatform that uploads every attachment, fetched blob or not
importToNewPlatform_media_all(m) ==
  LET memory == m.memories[m.d] IN
  IF m.j <= Len(memory.media)
    THEN LET media == memory.media[m.j]
             file == [name |-> media.fileName,
                      type |-> getMimeType(media.type, media.fileName)]
         IN Then(Logged([m EXCEPT !.pc = "uploadMedia"], "uploadMedia", media.id, "call", TRUE),
                 [NoCall EXCEPT !.op = "uploadMedia", !.files = <<file>>])
    ELSE Then(Logged([m EXCEPT !.pc = "createMemory"], "createMemory", memory.id, "call", TRUE),
              [NoCall EXCEPT !.op = "createMemory", !.text = memory.text,
                             !.tags = memory.tags, !.files = <<>>])

\* importToNewPlatform: the loop over a memory's media, from attachment j up to
\* the next uploadMedia or to createMemory
RECURSIVE importToNewPlatform_media(_)
importToNewPlatform_media(m) ==
  LET memory == m.memories[m.d] IN
  IF m.j <= Len(memory.media)
    THEN LET media == memory.media[m.j]
             file == [name |-> media.fileName,
                      type |-> getMimeType(media.type, media.fileName)]
         IN
         IF media.id \in m.mediaBlobs
           THEN Then(Logged([m EXCEPT !.pc = "uploadMedia"], "uploadMedia", media.id, "call", TRUE),
                     [NoCall EXCEPT !.op = "uploadMedia", !.files = <<file>>])
           ELSE importToNewPlatform_media([m EXCEPT !.j = m.j + 1])
    ELSE Then(Logged([m EXCEPT !.pc = "createMemory"], "createMemory", memory.id, "call", TRUE),
              [NoCall EXCEPT !.op = "createMemory", !.text = memory.text,
                             !.tags = memory.tags, !.files = <<>>])

\* importToNewPlatform: the loop over the memories, from memory d
importToNewPlatform_loop(m) ==
  IF m.d > Len(m.memories)
    THEN performFullMigration_imported(
           updateProgress(m, "complete", Len(m.memories), m.completedItems, ""))
    ELSE importToNewPlatform_media(
           [updateProgress(m, "uploading", Len(m.memories), m.completedItems, "")
              EXCEPT !.newMediaAttachments = <<>>, !.j = 1])

\* importToNewPlatform: completedItems++ and the next memory
importToNewPlatform_next(m) ==
  importToNewPlatform_loop([m EXCEPT !.completedItems = m.completedItems + 1,
                                     !.d = m.d + 1])

\* allMemories.find((m) => m.text === memory.text)
FindText(memories, text) ==
  IF \E i \in 1..Len(memories) : memories[i].text = text
    THEN memories[CHOOSE i \in 1..Len(memories) :
                    /\ memories[i].text = text
                    /\ \A k \in 1..(i-1) : memories[k].text # text]
    ELSE NoMemory

Idle == \A s \in Slots : calls[s] = NoCall

\* the run goes on to its next await; a call of the target provider runs up to
\* that call's first await
Proceed(r) ==
  /\ mig' = r.m
  /\ IF r.call = NoCall
       THEN UNCHANGED <<overlap, this, remote, calls, ret, now, nextId, nextMedia, hist>>
       ELSE \E adv \in (IF r.call.op \in {"createMemory", "updateMemory"} THEN 0..1 ELSE {0}) :
              Call(r.call, adv)
  /\ UNCHANGED <<provider, ncalls, others>>

\* setProgressCallback(callback)
setProgressCallback ==
  /\ mig' = [mig EXCEPT !.onProgress = TRUE]
  /\ UNCHANGED <<provider, overlap, this, remote, calls, ret, now, nextId, nextMedia,
                 hist, ncalls, others>>

\* performFullMigration(firebaseUserId, targetProvider, newUserId) up to the
\* getDocs of exportFromFirebase; targetProvider is the provider instance
performFullMigration_start(m, firebaseUserId, newUserId) ==
  updateProgress(
    updateProgress([NoMigration EXCEPT !.pc = "getDocs", !.run = m.run + 1,
                                       !.onProgress = m.onProgress,
                                       !.watched = m.onProgress,
                                       !.firebaseUserId = firebaseUserId,
                                       !.newUserId = newUserId],
                   "connecting", 0, 0, ""),
    "fetching", 0, 0, "")

performFullMigration(firebaseUserId, newUserId) ==
  /\ mig.pc \in {"idle", "done"}
  /\ Idle
  /\ mig' = performFullMigration_start(mig, firebaseUserId, newUserId)
  /\ UNCHANGED <<provider, overlap, this, remote, calls, ret, now, nextId, nextMedia,
                 hist, ncalls, others>>

\* handleMigrate() of MigrationUI: the progress callback is set, a new
\* CloudKitProvider is constructed and the migration runs on it
handleMigrate(firebaseUserId, newUserId) ==
  /\ firebaseUserId # ""
  /\ mig.pc \in {"idle", "done"}
  /\ mig.run < MaxRuns
  /\ Idle
  /\ provider' = "cloudkit"
  /\ this' = NewProvider
  /\ mig' = performFullMigration_start([mig EXCEPT !.onProgress = TRUE],
                                       firebaseUserId, newUserId)
  /\ UNCHANGED <<overlap, remote, calls, ret, now, nextId, nextMedia, hist, ncalls, others>>

\* exportFromFirebase that catches a rejected getDocs and exports nothing
exportFromFirebase_getDocs_caught ==
  \E outcome \in {"ok", "fail"} :
    /\ mig.pc = "getDocs"
    /\ LET found == IF outcome = "ok"
                      THEN SelectSeq(Firestore, LAMBDA doc : doc.userId = mig.firebaseUserId)
                      ELSE <<>>
           docs == [i \in 1..Len(found) |-> exportFromFirebase_memory(found[i])]
           m == Logged(mig, "getDocs", mig.firebaseUserId, outcome, outcome = "ok")
       IN Proceed(exportFromFirebase_loop([m EXCEPT !.docs = docs, !.d = 1, !.j = 1]))

\* exportFromFirebase: getDocs resolves with the user's documents, or rejects
exportFromFirebase_getDocs ==
  \E outcome \in {"ok", "fail"} :
    /\ mig.pc = "getDocs"
    /\ IF outcome = "ok"
         THEN LET found == SelectSeq(Firestore, LAMBDA doc : doc.userId = mig.firebaseUserId)
                  docs == [i \in 1..Len(found) |-> exportFromFirebase_memory(found[i])]
                       m == Logged(mig, "getDocs", mig.firebaseUserId, "ok", TRUE)
              IN Proceed(exportFromFirebase_loop([m EXCEPT !.docs = docs, !.d = 1, !.j = 1]))
         ELSE Proceed(performFullMigration_catch(
                        Logged(mig, "getDocs", mig.firebaseUserId, "fail", FALSE),
                        "getDocs failed"))

\* exportFromFirebase whose getBlob is not in a try block: a rejection ends the
\* run in the catch of performFullMigration
exportFromFirebase_getBlob_uncaught ==
  \E outcome \in {"ok", "fail"} :
    LET media == mig.docs[mig.d].media[mig.j]
        m == Logged(mig, "getBlob", media.id, outcome, outcome = "ok")
    IN
    /\ mig.pc = "getBlob"
    /\ IF outcome = "ok"
         THEN Proceed(exportFromFirebase_loop(
                        [m EXCEPT !.j = m.j + 1, !.mediaBlobs = m.mediaBlobs \cup {media.id}]))
         ELSE Proceed(performFullMigration_catch(m, "getBlob failed"))

\* exportFromFirebase: getBlob resolves with the blob, or rejects and is caught
exportFromFirebase_getBlob ==
  \E outcome \in {"ok", "fail"} :
    LET media == mig.docs[mig.d].media[mig.j]
        m == Logged(mig, "getBlob", media.id, outcome, outcome = "ok")
    IN
    /\ mig.pc = "getBlob"
    /\ Proceed(exportFromFirebase_loop(
                 [m EXCEPT !.j = m.j + 1,
                           !.mediaBlobs = IF outcome = "ok" THEN m.mediaBlobs \cup {media.id}
                                          ELSE m.mediaBlobs]))

\* how the awaited call of the target provider ended
Outcome == IF ret.res.ok THEN "ok" ELSE "fail"

\* no request the awaited call made of its backend failed
Clean == ret.res.ok /\ \A k \in 1..Len(ret.trace) : ret.trace[k].r # "fail"

\* importToNewPlatform: targetProvider.initialize returned
importToNewPlatform_initialize ==
  LET m == Logged(mig, "initialize", mig.newUserId, Outcome, Clean) IN
  /\ mig.pc = "initialize"
  /\ Idle
  /\ IF ret.res.ok
       THEN Proceed(importToNewPlatform_loop([m EXCEPT !.d = 1, !.completedItems = 0]))
       ELSE Proceed(performFullMigration_catch(m, ret.res.kind))

\* importToNewPlatform: targetProvider.uploadMedia returned
importToNewPlatform_uploadMedia ==
  LET media == mig.memories[mig.d].media[mig.j]
      m == Logged(mig, "uploadMedia", media.id, Outcome, Clean)
  IN
  /\ mig.pc = "uploadMedia"
  /\ Idle
  /\ Proceed(importToNewPlatform_media(
               [m EXCEPT !.j = m.j + 1,
                         !.newMediaAttachments =
                            IF ret.res.ok THEN m.newMediaAttachments \o ret.att
                            ELSE m.newMediaAttachments]))

\* importToNewPlatform whose createMemory is not in a try block: a rejection
\* ends the run in the catch of performFullMigration
importToNewPlatform_createMemory_uncaught ==
  LET memory == mig.memories[mig.d]
      m == Logged(mig, "createMemory", memory.id, Outcome, Clean)
      newMemory == FindText(getMemories(this), memory.text)
  IN
  /\ mig.pc = "createMemory"
  /\ Idle
  /\ IF ~ret.res.ok THEN Proceed(performFullMigration_catch(m, ret.res.kind))
     ELSE IF newMemory # NoMemory /\ Len(m.newMediaAttachments) > 0
       THEN Proceed(Then(Logged([m EXCEPT !.pc = "updateMemory"],
                                "updateMemory", memory.id, "call", TRUE),
                         [NoCall EXCEPT !.op = "updateMemory", !.id = newMemory.id]))
       ELSE Proceed(importToNewPlatform_next(m))

\* importToNewPlatform: targetProvider.createMemory returned; getMemories and
\* the updateMemory of the memory found by its text
importToNewPlatform_createMemory ==
  LET memory == mig.memories[mig.d]
      m == Logged(mig, "createMemory", memory.id, Outcome, Clean)
      newMemory == FindText(getMemories(this), memory.text)
  IN
  /\ mig.pc = "createMemory"
  /\ Idle
  /\ IF ret.res.ok /\ ensureInitialized(this) /\ newMemory # NoMemory
          /\ Len(m.newMediaAttachments) > 0
       THEN Proceed(Then(Logged([m EXCEPT !.pc = "updateMemory"],
                                "updateMemory", memory.id, "call", TRUE),
                         [NoCall EXCEPT !.op = "updateMemory", !.id = newMemory.id]))
       ELSE Proceed(importToNewPlatform_next(m))

\* importToNewPlatform: targetProvider.updateMemory returned
importToNewPlatform_updateMemory ==
  LET m == Logged(mig, "updateMemory", mig.memories[mig.d].id, Outcome, Clean) IN
  /\ mig.pc = "updateMemory"
  /\ Idle
  /\ Proceed(importToNewPlatform_next(m))

\* the steps of a migration run after its invocation
Migrating ==
  \/ exportFromFirebase_getDocs
  \/ exportFromFirebase_getBlob
  \/ importToNewPlatform_initialize
  \/ importToNewPlatform_uploadMedia
  \/ importToNewPlatform_createMemory
  \/ importToNewPlatform_updateMemory

\* ------------------------------------------------------- specifications

\* what initialize, fetchChanges and forceSync await
ResolveInitialize ==
  \/ Drive_findOrCreateMemoriesFile_search
  \/ Drive_findOrCreateMemoriesFile_create
  \/ Drive_saveMemories_send
  \/ Drive_saveMemories_done
  \/ Drive_loadMemories_done
  \/ CK_initialize_done
  \/ CK_fetchAndNotify_done

ResolveUpload == Drive_uploadMedia_done \/ CK_uploadMedia_done

ResolveDeleteMedia == Drive_deleteMedia_done \/ CK_deleteMedia_done

\* one user creating memories, calls in sequence
NextCreate ==
  \/ initialize("u1")
  \/ \E input \in Inputs : createMemory(input)
  \/ ResolveInitialize
  \/ ResolveUpload
  \/ CK_saveMemory_done

SpecCreate == Init /\ [][NextCreate]_vars

\* updateMemory calls offered: add one file, change the text, change the tags
UpdateCalls ==
  { [updates |-> [text |-> NoText, tags |-> NoTags], files |-> <<Photo>>],
    [updates |-> [text |-> NoText, tags |-> NoTags], files |-> <<Voice>>],
    [updates |-> [text |-> "C", tags |-> <<"x">>], files |-> <<>>] }

\* the memory created in the update and delete scenarios
Seed == [text |-> "A", tags |-> <<"family">>, mediaFiles |-> <<Photo>>]

\* one user editing a memory, calls in sequence
NextUpdate ==
  \/ initialize("u1")
  \/ createMemory(Seed)
  \/ \E id \in MemoryIds, uc \in UpdateCalls : updateMemory(id, uc.updates, uc.files)
  \/ \E id \in MemoryIds : removeMediaFromMemory(id, 1)
  \/ ResolveInitialize
  \/ ResolveUpload
  \/ ResolveDeleteMedia
  \/ CK_saveMemory_done
  \/ CK_updateMemory_done

SpecUpdate == Init /\ [][NextUpdate]_vars

\* one user deleting memories, calls in sequence
NextDelete ==
  \/ initialize("u1")
  \/ \E input \in Inputs : createMemory(input)
  \/ \E id \in MemoryIds : deleteMemory(id)
  \/ ResolveInitialize
  \/ ResolveUpload
  \/ ResolveDeleteMedia
  \/ CK_saveMemory_done
  \/ CK_deleteMemory_done

SpecDelete == Init /\ [][NextDelete]_vars

\* the memory created in the listener scenario
Note == [text |-> "note", tags |-> <<>>, mediaFiles |-> <<>>]

\* listeners, two users, every operation that notifies, calls in sequence
NextNotify ==
  \/ \E u \in Users : initialize(u)
  \/ \E cb \in Callbacks : subscribeToChanges(cb)
  \/ \E cb \in Callbacks : unsubscribe(cb)
  \/ createMemory(Note)
  \/ updateMemory(1, [text |-> "C", tags |-> NoTags], <<>>)
  \/ deleteMemory(1)
  \/ removeMediaFromMemory(1, 1)
  \/ fetchChanges
  \/ forceSync
  \/ ResolveInitialize
  \/ CK_saveMemory_done
  \/ CK_updateMemory_done
  \/ CK_deleteMemory_done

SpecNotify == Init /\ [][NextNotify]_vars

\* callers that do not await initialize before they use the provider
NextUnsequenced ==
  \/ initialize("u1")
  \/ createMemory(Note)
  \/ updateMemory(1, [text |-> "C", tags |-> NoTags], <<>>)
  \/ deleteMemory(1)
  \/ removeMediaFromMemory(1, 1)
  \/ uploadMedia(Photo)
  \/ deleteMedia(1)
  \/ ResolveInitialize
  \/ ResolveUpload
  \/ ResolveDeleteMedia
  \/ CK_saveMemory_done
  \/ CK_updateMemory_done
  \/ CK_deleteMemory_done

SpecUnsequenced == InitOverlap /\ [][NextUnsequenced]_vars

\* the Firebase users a migration is run for: with documents and without
LegacyUsers == {"fb1", "fb2", "fb0"}

\* what a migration run awaits of the target provider
ResolveMigration ==
  \/ ResolveInitialize
  \/ ResolveUpload
  \/ CK_saveMemory_done
  \/ CK_updateMemory_done

\* the first migration of a legacy user to a newly constructed provider
NextMigrate ==
  \/ setProgressCallback
  \/ /\ mig.run = 0
     /\ \E f \in LegacyUsers : performFullMigration(f, "u1")
  \/ Migrating
  \/ ResolveMigration

SpecMigrate == Init /\ [][NextMigrate]_vars

\* the migration screen: the migration is run, and run again
NextMigrateAgain ==
  \/ handleMigrate("fb1", "u1")
  \/ Migrating
  \/ CK_initialize_done
  \/ CK_fetchAndNotify_done
  \/ CK_uploadMedia_done
  \/ CK_saveMemory_done
  \/ CK_updateMemory_done

SpecMigrateAgain == Init /\ [][NextMigrateAgain]_vars

\* the memory of the removal scenario: two attachments
Album == [text |-> "A", tags |-> <<>>, mediaFiles |-> <<Photo, Voice>>]

\* one user removing attachments from a memory while a listener is subscribed
NextRemove ==
  \/ initialize("u1")
  \/ subscribeToChanges("cb2")
  \/ createMemory(Album)
  \/ \E id \in MemoryIds, mediaId \in MediaIds : removeMediaFromMemory(id, mediaId)
  \/ ResolveInitialize
  \/ ResolveUpload
  \/ ResolveDeleteMedia
  \/ CK_saveMemory_done
  \/ CK_updateMemory_done

SpecRemove == Init /\ [][NextRemove]_vars

\* a call of the operation is in flight
InFlight(op) == \E slot \in Slots : calls[slot].op = op

\* a CloudKit adapter whose cache is refreshed while a createMemory is in
\* flight; the set-up call is awaited
InitRefresh == InitOverlap /\ provider = "cloudkit"

NextRefresh ==
  \/ Idle /\ initialize("u1")
  \/ ~InFlight("createMemory") /\ createMemory(Note)
  \/ InFlight("createMemory") /\ fetchChanges
  \/ InFlight("createMemory") /\ forceSync
  \/ CK_initialize_done
  \/ CK_fetchAndNotify_done
  \/ CK_saveMemory_commit
  \/ CK_saveMemory_response

SpecRefresh == InitRefresh /\ [][NextRefresh]_vars

\* a Drive adapter whose cache is reloaded around a createMemory, neither call
\* awaiting the other; the set-up call is awaited
InitReload == InitOverlap /\ provider = "googledrive"

NextReload ==
  \/ Idle /\ initialize("u1")
  \/ ~InFlight("createMemory") /\ createMemory(Note)
  \/ ~InFlight("initialize") /\ fetchChanges
  \/ ~InFlight("initialize") /\ forceSync
  \/ Drive_findOrCreateMemoriesFile_search
  \/ Drive_findOrCreateMemoriesFile_create
  \/ Drive_saveMemories_send
  \/ Drive_saveMemories_done
  \/ Drive_loadMemories_done

SpecReload == InitReload /\ [][NextReload]_vars

\* createMemory calls on a Drive adapter started without awaiting one another;
\* the set-up call is awaited
InitOverwrite == InitOverlap /\ provider = "googledrive"

NextOverwrite ==
  \/ Idle /\ initialize("u1")
  \/ ~InFlight("initialize") /\ createMemory(Note)
  \/ Drive_findOrCreateMemoriesFile_search
  \/ Drive_findOrCreateMemoriesFile_create
  \/ Drive_saveMemories_send
  \/ Drive_saveMemories_done
  \/ Drive_loadMemories_done

SpecOverwrite == InitOverwrite /\ [][NextOverwrite]_vars

\* exactly one call is in flight
OneInFlight ==
  \E slot \in Slots :
    calls[slot] # NoCall /\ \A other \in Slots \ {slot} : calls[other] = NoCall

\* initialize calls on a Drive adapter, a second one started while the first
\* is in flight
InitSetup == InitOverlap /\ provider = "googledrive"

NextSetup ==
  \/ Idle /\ initialize("u1")
  \/ OneInFlight /\ initialize("u1")
  \/ Drive_findOrCreateMemoriesFile_search
  \/ Drive_findOrCreateMemoriesFile_create
  \/ Drive_saveMemories_send
  \/ Drive_saveMemories_done
  \/ Drive_loadMemories_done

SpecSetup == InitSetup /\ [][NextSetup]_vars

\* an updateMemory adding the files is in flight
Updating(files) ==
  \E slot \in Slots : calls[slot].op = "updateMemory" /\ calls[slot].files = files

\* two updateMemory calls on one memory of a Drive adapter, each adding a file,
\* the second started while the first is in flight; the set-up calls are awaited
InitRace == InitOverlap /\ provider = "googledrive"

NextRace ==
  \/ Idle /\ initialize("u1")
  \/ Idle /\ createMemory(Seed)
  \/ Idle /\ updateMemory(1, [text |-> NoText, tags |-> NoTags], <<Photo>>)
  \/ /\ Updating(<<Photo>>) /\ ~Updating(<<Voice>>)
     /\ updateMemory(1, [text |-> NoText, tags |-> NoTags], <<Voice>>)
  \/ Drive_findOrCreateMemoriesFile_search
  \/ Drive_findOrCreateMemoriesFile_create
  \/ Drive_saveMemories_send
  \/ Drive_saveMemories_done
  \/ Drive_loadMemories_done
  \/ Drive_uploadMedia_done

SpecRace == InitRace /\ [][NextRace]_vars

\* what a record of the zone can hold in its media field: nothing, or a string
\* that is empty, is not JSON, or is the JSON text of an array or of another value
MediaFields ==
  {[kind |-> "absent", t |-> "", v |-> <<>>]}
    \cup {[kind |-> "text", t |-> t, v |-> <<>>] : t \in {"", "garbage", "object", "null", "number"}}
    \cup {JSONstringify(list) :
            list \in {<<>>, <<[NoAttachment EXCEPT !.id = 1]>>,
                      <<[NoAttachment EXCEPT !.id = 1, !.type = "not an attachment"]>>}}

\* the records a fetch can return
CloudKitRecords ==
  {[NoDict EXCEPT !.id = id, !.text = text, !.tags = tags, !.media = media] :
     id \in 1..MaxMemoryIds, text \in {NoText, "", "trip"},
     tags \in {NoTags, <<>>, <<"sea">>}, media \in MediaFields}

InitConvert ==
  /\ InitBase /\ provider = "cloudkit" /\ overlap = FALSE /\ auth = NewAuth
  /\ \E record \in CloudKitRecords : conv = [NoConversion EXCEPT !.record = record]

\* this.recordToMemory(record), with the media it assigns
Convert ==
  /\ conv.pc = "idle"
  /\ conv' = [conv EXCEPT !.pc = "done",
                          !.memory = recordToMemory(this, conv.record),
                          !.media = recordToMemory_media(conv.record.media)]
  /\ UNCHANGED <<provider, overlap, this, remote, calls, ret, now, nextId, nextMedia,
                 hist, ncalls, mig, auth>>

NextConvert == Convert
SpecConvert == InitConvert /\ [][NextConvert]_vars

\* the legacy attachments a migration can meet: every media type with every
\* kind of file name
LegacyAttachments ==
  {[NoAttachment EXCEPT !.id = 1, !.type = type, !.fileName = [base |-> base, ext |-> ext]] :
     type \in {"image", "audio", "video"}, base \in {"shore", "waves"},
     ext \in {"png", "gif", "webp", "jpg", "mp3", "wav", "ogg", "mp4", "webm", "mov",
              "PNG", "MOV", "Mp3", "txt", ""}}

InitMime ==
  /\ InitBase /\ overlap = FALSE /\ auth = NewAuth
  /\ \E media \in LegacyAttachments :
       conv = [NoConversion EXCEPT !.pc = "exported", !.legacy = media]

ConvertOnly ==
  UNCHANGED <<provider, overlap, this, remote, calls, ret, now, nextId, nextMedia,
              hist, ncalls, mig, auth>>

\* importToNewPlatform: new File([blob], fileName, { type: getMimeType(...) })
MakeFile ==
  /\ conv.pc = "exported"
  /\ conv' = [conv EXCEPT !.pc = "file",
                          !.file = [name |-> conv.legacy.fileName,
                                    type |-> getMimeType(conv.legacy.type,
                                                         conv.legacy.fileName)]]
  /\ ConvertOnly

\* uploadMedia(file) of the target: the media type from file.type
Classify ==
  /\ conv.pc = "file"
  /\ conv' = [conv EXCEPT !.pc = "uploaded", !.type = mediaTypeOf(conv.file)]
  /\ ConvertOnly

NextMime == MakeFile \/ Classify
SpecMime == InitMime /\ [][NextMime]_vars

\* ------------------------------------------------------- AppleAuthProvider
\* a constructed AppleAuthProvider over a native plugin whose session is `session`;
\* pending: native calls awaited; delivered: what each callback was called with;
\* transitions: the signIn / signOut calls that completed, by the user they set
AppleAuth(session) ==
  [kind |-> "apple", currentUser |-> "null", authStateListeners |-> {},
   session |-> session, pending |-> {},
   subscribed |-> [cb \in Callbacks |-> FALSE],
   since |-> [cb \in Callbacks |-> 0],
   delivered |-> [cb \in Callbacks |-> <<>>],
   transitions |-> <<>>,
   \* the callbacks whose unsubscribe function was called, and how many calls
   \* each had received by then
   unsubscribed |-> [cb \in Callbacks |-> FALSE],
   before |-> [cb \in Callbacks |-> 0]]

InitAuth ==
  /\ InitBase /\ provider = "cloudkit" /\ overlap = FALSE /\ conv = NoConversion
  /\ \E session \in Users \cup {"null"} : auth = AppleAuth(session)

AuthOnly ==
  UNCHANGED <<provider, overlap, this, remote, calls, ret, now, nextId, nextMedia,
              hist, mig, conv>>

\* a native call is sent and awaited
Native(a, op, cb, u) ==
  /\ ncalls < MaxCalls
  /\ ncalls' = ncalls + 1
  /\ auth' = [a EXCEPT !.pending = @ \cup {[op |-> op, cb |-> cb, u |-> u, n |-> ncalls]}]

Answered(a, p) == [a EXCEPT !.pending = @ \ {p}]

\* callback(user): the initial call of onAuthStateChanged
Initial(a, cb, user) ==
  [a EXCEPT !.delivered[cb] = Append(@, [kind |-> "initial", v |-> user])]

\* Apple_notifyListeners(user): every listener is called, a throwing one is caught
Apple_notifyListeners(a, user) ==
  [a EXCEPT !.delivered =
     [cb \in Callbacks |->
        IF cb \in a.authStateListeners
        THEN Append(a.delivered[cb], [kind |-> "change", v |-> user])
        ELSE a.delivered[cb]]]

\* signIn(): await CloudKitNative.signInWithApple()
signIn ==
  /\ auth.kind = "apple"
  /\ \E u \in Users : Native(auth, "signIn", "none", u)
  /\ AuthOnly

\* signIn() resumes: currentUser = result.user, notifyListeners; or rethrows
signIn_done ==
  /\ auth.kind = "apple"
  /\ \E p \in auth.pending :
       /\ p.op = "signIn"
       /\ \/ auth' = Apple_notifyListeners(
                        [Answered(auth, p) EXCEPT !.session = p.u, !.currentUser = p.u,
                                                  !.transitions = Append(@, p.u)],
                        p.u)
          \/ auth' = Answered(auth, p)
  /\ UNCHANGED ncalls
  /\ AuthOnly

\* signOut(): await CloudKitNative.signOut()
signOut ==
  /\ auth.kind = "apple"
  /\ Native(auth, "signOut", "none", "null")
  /\ AuthOnly

\* signOut() resumes: currentUser = null, Apple_notifyListeners(null); or rejects
signOut_done ==
  /\ auth.kind = "apple"
  /\ \E p \in auth.pending :
       /\ p.op = "signOut"
       /\ \/ auth' = Apple_notifyListeners(
                        [Answered(auth, p) EXCEPT !.session = "null", !.currentUser = "null",
                                                  !.transitions = Append(@, "null")],
                        "null")
          \/ auth' = Answered(auth, p)
  /\ UNCHANGED ncalls
  /\ AuthOnly

\* onAuthStateChanged(callback): the listener is added, then getCurrentUser()
\* answers from currentUser or awaits CloudKitNative.getCurrentUser()
onAuthStateChanged(cb) ==
  /\ auth.kind = "apple"
  /\ ~auth.subscribed[cb]
  /\ LET a == [auth EXCEPT !.authStateListeners = @ \cup {cb},
                           !.subscribed[cb] = TRUE,
                           !.since[cb] = Len(auth.transitions)]
     IN IF a.currentUser # "null"
        THEN auth' = Initial(a, cb, a.currentUser) /\ UNCHANGED ncalls
        ELSE Native(a, "getCurrentUser", cb, "null")
  /\ AuthOnly

\* getCurrentUser() resumes: currentUser = result.user, or null when the native
\* call rejects; then callback(user)
getCurrentUser_done ==
  /\ auth.kind = "apple"
  /\ \E p \in auth.pending :
       /\ p.op = "getCurrentUser"
       /\ \/ auth' = Initial([Answered(auth, p) EXCEPT !.currentUser = auth.session],
                              p.cb, auth.session)
          \/ auth' = Initial(Answered(auth, p), p.cb, "null")
  /\ UNCHANGED ncalls
  /\ AuthOnly

\* CloudKitPlugin.getCurrentUser: the stored user id is read; the answer is
\* given after getCredentialState, with the id read here
Plugin_getCurrentUser ==
  /\ auth.kind = "apple"
  /\ \E p \in auth.pending :
       /\ p.op = "getCurrentUser"
       /\ auth' = [auth EXCEPT !.pending =
                     (@ \ {p}) \cup {[p EXCEPT !.op = "getCredentialState",
                                               !.u = auth.session]}]
  /\ UNCHANGED ncalls
  /\ AuthOnly

\* the plugin's answer reaches getCurrentUser(): the user read, or null when the
\* credential is not authorized, or a rejection; then callback(user)
getCurrentUser_resume ==
  /\ auth.kind = "apple"
  /\ \E p \in auth.pending :
       /\ p.op = "getCredentialState"
       /\ \/ auth' = Initial([Answered(auth, p) EXCEPT !.currentUser = p.u], p.cb, p.u)
          \/ auth' = Initial([Answered(auth, p) EXCEPT
                                !.currentUser = "null",
                                !.session = IF p.u # "null" THEN "null" ELSE @],
                             p.cb, "null")
          \/ auth' = Initial(Answered(auth, p), p.cb, "null")
  /\ UNCHANGED ncalls
  /\ AuthOnly

\* the function onAuthStateChanged(callback) returned is called
onAuthStateChanged_unsubscribe(cb) ==
  /\ auth.kind = "apple"
  /\ auth.subscribed[cb] /\ ~auth.unsubscribed[cb]
  /\ auth' = [auth EXCEPT !.authStateListeners = @ \ {cb},
                          !.unsubscribed[cb] = TRUE,
                          !.before[cb] = Len(auth.delivered[cb])]
  /\ UNCHANGED ncalls
  /\ AuthOnly

NextAuth ==
  \/ signIn
  \/ signIn_done
  \/ signOut
  \/ signOut_done
  \/ \E cb \in Callbacks : onAuthStateChanged(cb)
  \/ getCurrentUser_done

SpecAuth == InitAuth /\ [][NextAuth]_vars

\* the same provider with the plugin's getCurrentUser in its two steps and with
\* one listener, which can unsubscribe
NextSession ==
  \/ signIn
  \/ signIn_done
  \/ signOut
  \/ signOut_done
  \/ onAuthStateChanged("cb1")
  \/ onAuthStateChanged_unsubscribe("cb1")
  \/ Plugin_getCurrentUser
  \/ getCurrentUser_resume

SpecSession == InitAuth /\ [][NextSession]_vars

TypeOK ==
  /\ provider \in Providers
  /\ overlap \in BOOLEAN
  /\ this.initialized \in BOOLEAN
  /\ now \in ClockStart..(ClockStart + MaxTicks)
  /\ \A s \in Slots : calls[s].pc # "return"

\* ----------------------------------------------------------------- claims
\* Every property below reads `ret`, the call that returned last: its
\* arguments, the adapter's fields when it was invoked (pre) and when it
\* returned (post), the helper calls it made and how each resolved (trace),
\* the listeners it called back (notified, payload) and its result (res).

Mutating ==
  {"createMemory", "updateMemory", "deleteMemory", "uploadMedia", "deleteMedia",
   "removeMediaFromMemory"}

\* the trace entries of one kind, in order
Entries(c, names, kinds) ==
  SelectSeq(c.trace, LAMBDA x : x.e \in names /\ x.r \in kinds)

\* an uploadMedia call of c was followed by a failure
UploadFailed(c) ==
  \E k \in 1..(Len(c.trace) - 1) :
    /\ c.trace[k] = [e |-> "uploadMedia", a |-> c.trace[k].a, r |-> "call"]
    /\ c.trace[k + 1].r = "fail"

\* the requests that write a memory record / overwrite the document
RecordWrites == {"drive.patch", "ck.saveMemory", "ck.updateMemory", "ck.deleteMemory"}

\* C1 (as stated): a mutating operation invoked while no initialize call has
\* completed successfully fails with not_initialized, also when an initialize
\* call is in progress or has failed.
C1_FailsBeforeInitialized ==
  (ret.op \in Mutating /\ ret.preOk = {}) => ret.res.kind = "not_initialized"

\* C1: a mutating operation invoked while initialize was in progress, before
\* any initialize completed, has gone on to succeed.
C1_RanDuringInitialize ==
  /\ ret.op \in Mutating
  /\ ret.preOk = {}
  /\ ret.res.ok
  /\ \E s \in Slots : calls[s].op = "initialize"

\* C2: when a media upload inside createMemory fails, the call fails with
\* unknown, no record write is requested, the cache is as it was before the
\* call and no listener is called.
C2_UploadFailureLeavesNothing ==
  (ret.op = "createMemory" /\ UploadFailed(ret)) =>
    /\ ret.res.kind = "unknown"
    /\ Entries(ret, RecordWrites, {"call", "ok", "fail"}) = <<>>
    /\ ret.post.memories = ret.pre.memories
    /\ ret.notified = <<>>

\* C2 happens: the second upload of a createMemory failed after the first
\* succeeded.
C2_SecondUploadFailed ==
  /\ ret.op = "createMemory"
  /\ UploadFailed(ret)
  /\ Len(ret.uploaded) = 1
  /\ Len(ret.files) = 2

\* C3 (as stated): after a successful createMemory(input) returning m,
\* getMemory(m.id) has the input's text and tags, one attachment per input
\* file in input order, and createdAt equal to updatedAt.
C3_CreatedMemoryMatchesInput ==
  (ret.op = "createMemory" /\ ret.res.ok) =>
    LET m == getMemory(ret.post, ret.val.id) IN
    /\ m # NoMemory
    /\ m.text = ret.text
    /\ m.tags = ret.tags
    /\ Len(m.media) = Len(ret.files)
    /\ \A i \in 1..Len(ret.files) : m.media[i].fileName = ret.files[i].name
    /\ m.createdAt = m.updatedAt

\* C3: a createMemory has succeeded and the memory it cached has createdAt
\* different from updatedAt.
C3_TimestampsDiffer ==
  /\ ret.op = "createMemory"
  /\ ret.res.ok
  /\ getMemory(ret.post, ret.val.id).createdAt # getMemory(ret.post, ret.val.id).updatedAt

\* C4 (as stated): updateMemory and removeMediaFromMemory on an initialized
\* adapter with an id that is not in the cache fail with not_found.
C4_MissingIdIsNotFound ==
  (/\ ret.op \in {"updateMemory", "removeMediaFromMemory"}
   /\ ret.pre.initialized
   /\ getMemory(ret.pre, ret.id) = NoMemory)
    => ret.res.kind = "not_found"

\* C4: an updateMemory for an id that is not in the cache has failed with
\* unknown after uploading the new file.
C4_MissingIdIsUnknown ==
  /\ ret.op = "updateMemory"
  /\ ret.pre.initialized
  /\ getMemory(ret.pre, ret.id) = NoMemory
  /\ ret.res.kind = "unknown"
  /\ Len(ret.uploaded) = 1

\* C5: after two (or more) successful updateMemory(id, {}, files) calls in a
\* row on one memory, its media list is the list it had before the first of
\* them followed by the attachments uploaded, one per file, in call and file
\* order.
C5_SequentialUpdatesAppendMedia ==
  hist.updRun.n >= 2 =>
    LET u == hist.updRun IN
    /\ getMemory(ret.post, u.id).media = u.base \o u.atts
    /\ Len(u.atts) = Len(u.files)
    /\ \A i \in 1..Len(u.files) : u.atts[i].fileName = u.files[i].name

\* C5 happens: two such calls in a row, one file each, on a memory that
\* already had an attachment.
C5_TwoUpdatesDone ==
  /\ hist.updRun.n = 2
  /\ hist.updRun.base # <<>>
  /\ Len(hist.updRun.files) = 2
  /\ hist.updRun.files[1] # hist.updRun.files[2]

\* C6: after N successful createMemory calls in a row, getMemories has the
\* memory of the k-th call at position N-k from the front (counting from 0),
\* followed by the cache as it was before the first of them.
C6_MostRecentFirst ==
  LET run == hist.createRun
      n == Len(run)
      mems == getMemories(ret.post)
  IN n >= 1 =>
       /\ Len(mems) = n + Len(hist.createBase)
       /\ \A k \in 1..n : mems[n - k + 1].id = run[k]
       /\ SubSeq(mems, n + 1, Len(mems)) = hist.createBase

\* C6 happens: two createMemory calls in a row have succeeded.
C6_TwoCreatesDone == Len(hist.createRun) = 2

MediaDeletes(c) == Entries(c, {"deleteMedia"}, {"call"})

RecordRemovals(c) == Entries(c, {"drive.patch", "ck.deleteMemory"}, {"ok", "fail"})

\* position of the first entry of the trace whose request is in names
FirstOf(c, names) ==
  IF \E k \in 1..Len(c.trace) : c.trace[k].e \in names
    THEN CHOOSE k \in 1..Len(c.trace) :
           c.trace[k].e \in names /\ \A j \in 1..(k - 1) : c.trace[j].e \notin names
    ELSE Len(c.trace) + 1

\* C8: deleteMemory(id) on an initialized adapter asks for the deletion of
\* every attachment of the cached memory, in order, before the record removal
\* is sent; it succeeds exactly when the record removal succeeds, whatever
\* the media deletions did, fails with unknown otherwise, and after success
\* getMemory(id) is absent.
C8_DeleteMemoryBestEffortMedia ==
  (ret.op = "deleteMemory" /\ ret.pre.initialized) =>
    LET media == getMemory(ret.pre, ret.id).media
        asked == MediaDeletes(ret)
    IN
    /\ Len(asked) = Len(media)
    /\ \A i \in 1..Len(media) : asked[i].a = media[i].id
    /\ \A k \in 1..Len(ret.trace) :
         ret.trace[k].e = "deleteMedia" =>
           k < FirstOf(ret, {"drive.patch", "ck.deleteMemory"})
    /\ ret.res.ok <=> (RecordRemovals(ret) # <<>> /\ RecordRemovals(ret)[1].r = "ok")
    /\ ~ret.res.ok => ret.res.kind = "unknown"
    /\ ret.res.ok => getMemory(ret.post, ret.id) = NoMemory

\* C8 happens: a deleteMemory of a memory with two attachments succeeded
\* although the deletion of its first attachment failed.
C8_DeletedDespiteMediaFailure ==
  /\ ret.op = "deleteMemory"
  /\ ret.res.ok
  /\ Len(getMemory(ret.pre, ret.id).media) = 2
  /\ Len(ret.trace) >= 2
  /\ ret.trace[1].e = "deleteMedia"
  /\ ret.trace[2].r = "fail"

\* the cache was replaced by what a fetch delivered
CacheReplaced(c) == Entries(c, {"drive.get", "ck.fetchMemories"}, {"ok"}) # <<>>

\* C9: subscribeToChanges(cb) calls cb, and only cb, once with the current
\* cache; every successful createMemory, updateMemory, deleteMemory and
\* removeMediaFromMemory, and every fetchChanges / forceSync that replaced
\* the cache, calls each subscribed listener once with the cache as it is
\* after the change.
C9_ListenersSeeEveryChange ==
  /\ ret.op = "subscribeToChanges" =>
       /\ ret.notified = <<ret.cb>>
       /\ ret.payload = ret.pre.memories
       /\ ret.cb \in Range(ret.post.changeListeners)
  /\ (\/ ret.op \in {"createMemory", "updateMemory", "deleteMemory",
                     "removeMediaFromMemory"} /\ ret.res.ok
      \/ ret.op \in {"fetchChanges", "forceSync"} /\ CacheReplaced(ret)) =>
       /\ ret.notified = ret.post.changeListeners
       /\ ret.payload = ret.post.memories
       /\ ret.post.changeListeners = ret.pre.changeListeners

\* C9 happens: a successful removeMediaFromMemory with a listener subscribed
\* and a memory in the cache.
C9_ListenerSawChange ==
  /\ ret.op = "removeMediaFromMemory"
  /\ ret.res.ok
  /\ ret.notified # <<>>
  /\ ret.payload # <<>>

\* how many times cb was called
Times(seq, cb) == Len(SelectSeq(seq, LAMBDA x : x = cb))

\* C10: when a mutating operation notifies while a listener that throws is
\* registered, every registered listener is called exactly once and the
\* operation returns its successful result.
C10_ThrowingListenerIsIsolated ==
  (/\ ret.op \in Mutating
   /\ ret.notified # <<>>
   /\ Range(ret.post.changeListeners) \cap Throwing # {}) =>
    /\ \A cb \in Range(ret.post.changeListeners) : Times(ret.notified, cb) = 1
    /\ ret.res.ok

\* C10 happens: a createMemory notified with the throwing listener registered
\* ahead of another one.
C10_NotifiedPastThrowingListener ==
  /\ ret.op = "createMemory"
  /\ ret.res.ok
  /\ ret.post.changeListeners = <<"cb1", "cb2">>
  /\ ret.notified # <<>>
\* ------------------------------------------------------ migration claims

\* the legacy documents of the user a run migrates, as exportFromFirebase reads them
LegacyOf(firebaseUserId) ==
  LET found == SelectSeq(Firestore, LAMBDA doc : doc.userId = firebaseUserId)
  IN [i \in 1..Len(found) |-> exportFromFirebase_memory(found[i])]

\* the attachments of a legacy record that have a stored blob
Stored(memory) == SelectSeq(memory.media, LAMBDA media : media.storagePath # "")

\* the run has returned
Returned == mig.pc = "done" /\ mig.result.returned

\* no request the run made of the legacy backend or of the target failed
CleanRun == \A k \in 1..Len(mig.log) : mig.log[k].r # "fail" /\ mig.log[k].clean

\* C11: when no backend call failed during performFullMigration, then after
\* its return the target provider holds, for every legacy memory of the user, a
\* memory with the same text and tags whose media list has one attachment for
\* each stored legacy attachment of that memory
C11_MigrationLosesNothing ==
  (Returned /\ CleanRun) =>
    \A i \in 1..Len(LegacyOf(mig.firebaseUserId)) :
      LET legacy == LegacyOf(mig.firebaseUserId)[i] IN
      \E k \in 1..Len(this.memories) :
        /\ this.memories[k].text = legacy.text
        /\ this.memories[k].tags = legacy.tags
        /\ Len(this.memories[k].media) = Len(Stored(legacy))

\* a run in which nothing failed has migrated a record that has an attachment
C11_CleanRunWithMedia ==
  /\ Returned /\ CleanRun /\ mig.result.success
  /\ \E k \in 1..Len(mig.log) : mig.log[k].e = "uploadMedia" /\ mig.log[k].r = "ok"


\* the memories the target holds: the records of the CloudKit zone, or the
\* memories of the Drive provider
Held == IF provider = "cloudkit" THEN remote.records ELSE this.memories

\* C12: however often performFullMigration is invoked for the same legacy user
\* and the same target, the target never holds two memories that originate
\* from the same legacy record
C12_MigrationDuplicatesNothing ==
  \A i \in 1..Len(LegacyOf(mig.firebaseUserId)) :
    \A k, l \in 1..Len(Held) :
      (Held[k].text = LegacyOf(mig.firebaseUserId)[i].text
         /\ Held[l].text = LegacyOf(mig.firebaseUserId)[i].text) => k = l

\* the migration was run a second time after a run that had created a record
C12_RetriedAfterCreate ==
  /\ mig.run = 2
  /\ Returned /\ mig.result.success
  /\ Len(remote.records) > Len(mig.memories)

Rank(status) ==
  CASE status = "connecting" -> 1
    [] status = "fetching" -> 2
    [] status = "uploading" -> 3
    [] status \in {"complete", "error"} -> 4

Terminal(progress) == {k \in 1..Len(progress) : progress[k].status \in {"complete", "error"}}

\* C13: in a run of performFullMigration whose progress callback was set when
\* it began, the statuses delivered are connecting first, then fetching, then
\* uploading, then complete or error: uploading never before a fetching, no
\* fetching after uploading, one terminal status once the run has returned
\* and none before, and nothing delivered after the terminal status
C13_ProgressOrder ==
  LET p == mig.progress IN
  (mig.run > 0 /\ mig.watched) =>
    /\ Len(p) >= 1 /\ p[1].status = "connecting"
    /\ \A k \in 2..Len(p) : p[k].status # "connecting"
    /\ \A k \in 1..Len(p) :
         p[k].status = "uploading" => \E l \in 1..(k-1) : p[l].status = "fetching"
    /\ \A k, l \in 1..Len(p) : k < l => Rank(p[k].status) <= Rank(p[l].status)
    /\ Cardinality(Terminal(p)) = (IF Returned THEN 1 ELSE 0)
    /\ \A k \in Terminal(p) : k = Len(p)

\* a watched run went through uploading and returned
C13_WatchedRunUploaded ==
  /\ Returned /\ mig.watched
  /\ \E k \in 1..Len(mig.progress) : mig.progress[k].status = "uploading"
  /\ mig.progress[Len(mig.progress)].status = "complete"

\* the requests of a kind the run has logged with a result
LogOf(name, r) == {mig.log[k].a : k \in {i \in 1..Len(mig.log) : mig.log[i].e = name /\ mig.log[i].r = r}}

\* exportFromFirebase has returned
Exported == mig.run > 0 /\ mig.pc \notin {"getDocs", "getBlob"} /\ LogOf("getDocs", "ok") # {}

\* what exportFromFirebase returned: every legacy record of the user with its
\* media metadata, and the blobs of exactly the downloads that succeeded
ExportComplete ==
  /\ mig.memories = LegacyOf(mig.firebaseUserId)
  /\ mig.mediaBlobs = LogOf("getBlob", "ok")

Attempted ==
  LET made == SelectSeq(mig.log, LAMBDA x : x.e = "createMemory" /\ x.r = "call")
  IN [i \in 1..Len(made) |-> made[i].a]

\* C15: once the import loop runs, a failed uploadMedia, createMemory or
\* updateMemory for one record does not stop it: the records are attempted
\* in export order, and when the run returns every exported record has been
\* attempted, the last progress is complete and the result is success:true
C15_ImportFailureIsSkipped ==
  (mig.run > 0 /\ LogOf("initialize", "ok") # {}) =>
    /\ Len(Attempted) <= Len(mig.memories)
    /\ \A i \in 1..Len(Attempted) : Attempted[i] = mig.memories[i].id
    /\ Returned =>
         /\ Len(Attempted) = Len(mig.memories)
         /\ mig.result.success
         /\ mig.watched => mig.progress[Len(mig.progress)].status = "complete"

\* the import of the first record failed and the run has returned
C15_ReturnedAfterFailedImport ==
  /\ Returned /\ mig.watched
  /\ Len(mig.memories) = 2
  /\ \E k \in 1..Len(mig.log) :
       /\ mig.log[k].e \in {"uploadMedia", "createMemory"}
       /\ mig.log[k].r = "fail"
       /\ \E l \in (k+1)..Len(mig.log) :
            mig.log[l].e = "createMemory" /\ mig.log[l].a = mig.memories[2].id

\* C16: when performFullMigration returns success:true, migratedCount is the
\* number of legacy records for which createMemory succeeded
C16_CountsCreatedRecords ==
  (Returned /\ mig.result.success) =>
    mig.result.migratedCount = Cardinality(LogOf("createMemory", "ok"))

\* a run returned success:true after a createMemory had failed
C16_SucceededWithFailedCreate ==
  /\ Returned /\ mig.result.success
  /\ LogOf("createMemory", "fail") # {}

\* C17: when the legacy query fails, performFullMigration returns success:false
\* with migratedCount 0 and the error message, the progress callback set for
\* the run is given status error with that message, and no operation of the
\* target provider has been invoked
C17_QueryFailureIsFatal ==
  (mig.run > 0 /\ LogOf("getDocs", "fail") # {}) =>
    /\ Returned
    /\ mig.result = [returned |-> TRUE, success |-> FALSE, migratedCount |-> 0,
                     error |-> "getDocs failed"]
    /\ mig.watched =>
         mig.progress[Len(mig.progress)] =
           [status |-> "error", totalItems |-> 0, completedItems |-> 0,
            error |-> "getDocs failed"]
    /\ \A k \in 1..Len(mig.log) : mig.log[k].e = "getDocs"
    /\ Idle /\ ret = NoCall /\ this = NewProvider /\ remote = NewRemote

\* the legacy query of a watched run has failed
C17_QueryFailed ==
  /\ mig.watched
  /\ LogOf("getDocs", "fail") # {}

\* ----------------------------------------------------- initialize claims

\* the call returned last is an initialize that ran the initialization
Initialized == ret.op = "initialize" /\ ~(ret.pre.initialized /\ ret.pre.userId = ret.u)

\* getAccessToken() gave the call no token
TokenRefused(c) == \E k \in 1..Len(c.trace) : c.trace[k] = [e |-> "getAccessToken", a |-> 0, r |-> "fail"]

\* the call read the memories of the backend
Loaded(c) ==
  \E k \in 1..Len(c.trace) :
    c.trace[k].e \in {"drive.get", "ck.fetchMemories"} /\ c.trace[k].r = "ok"

\* C18: GoogleDriveProvider.initialize, called when no access token can be
\* supplied, fails with kind not_authenticated and leaves the adapter
\* uninitialized
C18_NoTokenIsNotAuthenticated ==
  (provider = "googledrive" /\ Initialized /\ TokenRefused(ret)) =>
    /\ ret.res.kind = "not_authenticated"
    /\ ~ret.post.initialized

\* initialize of the Drive adapter has returned after getAccessToken threw
C18_InitializedWithoutToken ==
  provider = "googledrive" /\ Initialized /\ TokenRefused(ret) /\ ~ret.res.ok

\* C19: after initialize(u1) has succeeded, initialize(u2) with another user
\* resets the adapter: when it has returned, the cache holds no memory that it
\* held under u1, other than by reading the backend again, and when it failed
\* the adapter is not initialized
C19_OtherUserResets ==
  (Initialized /\ ret.preLast.ok /\ ret.preLast.u # ret.u /\ ret.pre.initialized) =>
    /\ Loaded(ret) \/ \A k \in 1..Len(ret.post.memories) :
                        ret.post.memories[k] \notin Range(ret.pre.memories)
    /\ ~ret.res.ok => ~ret.post.initialized

\* initialize for another user has failed on an adapter that held a memory
C19_OtherUserFailed ==
  /\ Initialized /\ ret.preLast.ok /\ ret.preLast.u # ret.u /\ ret.pre.initialized
  /\ ~ret.res.ok
  /\ ret.pre.memories # <<>>

\* the memories the backend holds, in the Memory shape the adapter gives them
BackendMemories(th) ==
  IF provider = "cloudkit"
    THEN {recordToMemory(th, recordToDict(remote.records[k])) : k \in 1..Len(remote.records)}
    ELSE IF th.memoriesFileId \in 1..Len(remote.files)
           THEN Range(Drive_parse(remote.files[th.memoriesFileId]))
           ELSE {}

\* C20: when initialize(u) has run and returned successfully, the cache was
\* read from the backend and holds the memories the backend holds for the user
C20_CacheIsLoaded ==
  (Idle /\ Initialized /\ ret.res.ok) =>
    /\ Loaded(ret)
    /\ (\A k \in 1..Len(ret.trace) : ret.trace[k].a # 404) =>
          /\ Range(ret.post.memories) = BackendMemories(ret.post)
          /\ Len(ret.post.memories) = Cardinality(BackendMemories(ret.post))

\* initialize has returned successfully although its fetch of the memories failed
C20_SucceededWithoutLoad ==
  /\ Idle /\ Initialized /\ ret.res.ok
  /\ \E k \in 1..Len(ret.trace) :
       ret.trace[k].e = "ck.fetchMemories" /\ ret.trace[k].r = "fail"

\* ------------------------------------------------------------ sync claims

\* the memory list of the Drive document, with its dates made Date objects
Downloaded(doc) ==
  IF doc.text = "empty" THEN <<>>
  ELSE [j \in 1..Len(doc.memories) |->
          [doc.memories[j] EXCEPT !.createdAt = @.iso, !.updatedAt = @.iso]]

\* C22: when fetchChanges or forceSync of the Drive adapter completes after
\* downloading the document, the cache is the document's memory list in the
\* document's order (empty when the file is gone), with nothing of the
\* previous cache merged in, and every listener is called with that cache
C22_FetchReplacesCache ==
  (/\ provider = "googledrive" /\ Idle
   /\ ret.op \in {"fetchChanges", "forceSync"} /\ ret.res.ok
   /\ Loaded(ret)) =>
    /\ ret.post.memories =
         (IF \E k \in 1..Len(ret.trace) : ret.trace[k].a = 404 THEN <<>>
          ELSE Downloaded(remote.files[ret.post.memoriesFileId]))
    /\ ret.notified = ret.post.changeListeners
    /\ ret.payload = ret.post.memories

\* a fetch replaced a cache that differed from the document, with a listener
C22_FetchDiscardedLocalState ==
  /\ provider = "googledrive" /\ Idle
  /\ ret.op \in {"fetchChanges", "forceSync"} /\ ret.res.ok /\ Loaded(ret)
  /\ ret.pre.memories # ret.post.memories
  /\ ret.notified # <<>>

\* C23: updateMemory and removeMediaFromMemory called on an initialized
\* adapter with an id absent from the cache issue no backend request: no media
\* upload, no media deletion, no record update and no document write
C23_MissingIdSendsNothing ==
  (/\ ret.op \in {"updateMemory", "removeMediaFromMemory"}
   /\ ret.pre.initialized
   /\ getMemory(ret.pre, ret.id) = NoMemory)
    => ret.trace = <<>>

\* an updateMemory for an id absent from the cache has sent a record update
C23_MissingIdSentUpdate ==
  /\ ret.op = "updateMemory"
  /\ ret.pre.initialized
  /\ getMemory(ret.pre, ret.id) = NoMemory
  /\ \E k \in 1..Len(ret.trace) : ret.trace[k].e = "ck.updateMemory"

\* a time as the adapter's cache can hold it: CloudKit dates have passed
\* through an ISO8601 string of whole seconds
AsCached(t) == IF provider = "cloudkit" THEN (t \div TicksPerSecond) * TicksPerSecond ELSE t

\* s is an initial segment of t
IsPrefix(s, t) == Len(s) <= Len(t) /\ \A k \in 1..Len(s) : s[k] = t[k]

\* C26: a successful updateMemory(id, partialUpdate) of a cached memory leaves
\* text unchanged when partialUpdate has no text and tags unchanged when it has
\* no tags, sets them when it has, never changes id, createdAt, userId or the
\* existing attachments, and sets updatedAt to the time of the update
C26_UpdateChangesOnlyNamedFields ==
  (/\ Idle /\ ret.op = "updateMemory" /\ ret.res.ok
   /\ getMemory(ret.pre, ret.id) # NoMemory) =>
    LET before == getMemory(ret.pre, ret.id)
        after == getMemory(ret.post, ret.id)
    IN /\ after = ret.val
       /\ after.text = (IF ret.text = NoText THEN before.text ELSE ret.text)
       /\ after.tags = (IF ret.tags = NoTags THEN before.tags ELSE ret.tags)
       /\ after.id = before.id
       /\ after.createdAt = before.createdAt
       /\ after.userId = before.userId
       /\ IsPrefix(before.media, after.media)
       /\ AsCached(ret.preNow) <= after.updatedAt
       /\ after.updatedAt <= now

\* a successful update has changed the userId of the cached memory
C26_UpdateChangedUserId ==
  /\ Idle /\ ret.op = "updateMemory" /\ ret.res.ok
  /\ getMemory(ret.pre, ret.id) # NoMemory
  /\ getMemory(ret.post, ret.id).userId # getMemory(ret.pre, ret.id).userId

\* C27: in every reachable state every memory in the adapter's cache has
\* createdAt <= updatedAt
C27_CreatedBeforeUpdated ==
  \A k \in 1..Len(this.memories) : this.memories[k].createdAt <= this.memories[k].updatedAt

\* the cache holds a memory that was updated after the clock had advanced
C27_UpdatedLater ==
  \E k \in 1..Len(this.memories) : this.memories[k].createdAt < this.memories[k].updatedAt

\* the initialize, uploadMedia and createMemory calls the run has made of the
\* target provider, in the order it made them
TargetCalls ==
  LET made == SelectSeq(mig.log, LAMBDA x : x.r = "call" /\ x.e # "updateMemory")
  IN [i \in 1..Len(made) |-> [e |-> made[i].e, a |-> made[i].a]]

\* the calls importing one record takes: an upload per attachment that has a
\* fetched blob, in attachment order, then the createMemory
CallsFor(memory) ==
  LET fetched == SelectSeq(memory.media, LAMBDA media : media.id \in mig.mediaBlobs)
  IN [i \in 1..Len(fetched) |-> [e |-> "uploadMedia", a |-> fetched[i].id]]
       \o <<[e |-> "createMemory", a |-> memory.id]>>

RECURSIVE CallsFrom(_)
CallsFrom(i) ==
  IF i > Len(mig.memories) THEN <<>> ELSE CallsFor(mig.memories[i]) \o CallsFrom(i + 1)

\* the call of the target provider the run awaits or has just been answered
Awaited == IF Idle THEN ret ELSE calls[1]

ValidList(field) ==
  /\ field.kind = "text" /\ field.t = "array"
  /\ \A i \in 1..Len(field.v) : field.v[i].type \in {"image", "audio", "video"}

\* C30: recordToMemory always yields a list as media, and an empty one unless the
\* record's media field is the serialization of a list of attachments
C30_MediaIsAList ==
  conv.pc = "done" =>
    /\ conv.media.t = "array"
    /\ ~ValidList(conv.record.media) => conv.media.v = <<>>

\* a record whose media field parses to something that is not a list was converted
C30_ConvertedNonList ==
  /\ conv.pc = "done"
  /\ conv.record.media.kind = "text" /\ conv.record.media.t \in {"object", "null", "number"}
  /\ conv.media.t # "array"

\* the users callback cb was notified of, in order
Changes(cb) ==
  LET d == SelectSeq(auth.delivered[cb], LAMBDA e : e.kind = "change")
  IN [i \in 1..Len(d) |-> d[i].v]

\* the transitions completed since cb subscribed
TransitionsSince(cb) ==
  SubSeq(auth.transitions, auth.since[cb] + 1, Len(auth.transitions))

\* C21: a subscribed callback gets the current state once and first, and then
\* one call per completed signIn / signOut, in the order they completed
C21_InitialThenTransitions ==
  auth.kind = "apple" =>
    \A cb \in Callbacks :
      LET d == auth.delivered[cb]
      IN /\ Len(SelectSeq(d, LAMBDA e : e.kind = "initial")) <= 1
         /\ d # <<>> => d[1].kind = "initial"
         /\ auth.subscribed[cb] => Changes(cb) = TransitionsSince(cb)

\* a callback was told of a sign-in before it got its initial call
C21_TransitionBeforeInitial ==
  /\ auth.kind = "apple"
  /\ \E cb \in Callbacks :
       LET d == auth.delivered[cb]
       IN /\ Len(d) >= 2
          /\ d[1].kind = "change" /\ d[1].v \in Users
          /\ d[2].kind = "initial"

\* the operations of the StorageProvider contract that change or read memories
ContractOps ==
  {"initialize", "createMemory", "updateMemory", "deleteMemory", "removeMediaFromMemory"}

\* the call c as it was made
AsCalled(c) ==
  [NoCall EXCEPT !.op = c.op, !.u = c.u, !.id = c.id, !.text = c.text, !.tags = c.tags,
                 !.files = c.files, !.mediaId = c.mediaId, !.pc = "start",
                 !.pre = c.pre, !.preNow = c.preNow]

\* the same call made on the other adapter when its fields are those c found:
\* the handler up to its first await or to its return
OtherAdapter(c) ==
  LET w == [this |-> c.pre, now |-> c.preNow, nextId |-> nextId]
  IN IF provider = "googledrive"
       THEN CK_step(w, AsCalled(c), StartEvent, 0)
       ELSE Drive_step(w, AsCalled(c), StartEvent, 0)

\* C24: a call that the other adapter, holding the same cache, answers without
\* any backend request has the same outcome on this adapter
C24_SameOutcomeOnBothAdapters ==
  (ret.op \in ContractOps /\ OtherAdapter(ret).c.pc = "return") =>
    /\ ret.res.ok = OtherAdapter(ret).c.res.ok
    /\ ret.res.kind = OtherAdapter(ret).c.res.kind

\* CloudKit answered an updateMemory of an uncached id that Drive refuses as
\* not_found, and with another kind
C24_UpdateOfUnknownIdDiffers ==
  /\ provider = "cloudkit" /\ ret.op = "updateMemory"
  /\ ret.pre.initialized /\ FindIndex(ret.pre.memories, ret.id) = 0
  /\ OtherAdapter(ret).c.res.kind = "not_found"
  /\ ret.res.kind # "not_found"

\* C25: a successful updateMemory stores and returns the media it read when it
\* started followed by its own uploads, so what an overlapping updateMemory
\* stored in between is overwritten
C25_UpdateWritesWhatItRead ==
  (provider = "googledrive" /\ ret.op = "updateMemory" /\ ret.res.ok) =>
    ret.val.media = ret.existing.media \o ret.uploaded

\* two updateMemory calls on memory 1 returned successfully, each having
\* uploaded its file, and the cached memory lacks one of the two attachments
C25_LostUpdate ==
  /\ Idle
  /\ hist.updRun.n = 2 /\ hist.updRun.id = 1 /\ Len(hist.updRun.atts) = 2
  /\ FindIndex(this.memories, 1) # 0
  /\ LET media == this.memories[FindIndex(this.memories, 1)].media
     IN \E k \in 1..2 : \A i \in 1..Len(media) : media[i] # hist.updRun.atts[k]

\* C28: the cache never holds two memories with the same id
C28_CacheIdsUnique ==
  \A i, j \in 1..Len(this.memories) :
    i # j => this.memories[i].id # this.memories[j].id

\* a createMemory returned its memory and the cache holds it twice
C28_CreatedMemoryCachedTwice ==
  /\ ret.op = "createMemory" /\ ret.res.ok
  /\ \E i, j \in 1..Len(this.memories) :
       i # j /\ this.memories[i].id = ret.val.id /\ this.memories[j].id = ret.val.id

\* the media lists the backend holds for the memory
PersistedMedia(id) == {m.media : m \in {x \in BackendMemories(this) : x.id = id}}

\* the call's last request overwrote the document / updated the record
PersistRequestOk(c) ==
  /\ c.trace # <<>>
  /\ c.trace[Len(c.trace)].e \in {"drive.patch", "ck.updateMemory"}
  /\ c.trace[Len(c.trace)].r = "ok"

\* the blob delete of the call failed
BlobDeleteFailed(c) ==
  \E k \in 2..Len(c.trace) :
    /\ c.trace[k - 1].e = "deleteMedia" /\ c.trace[k - 1].r = "call"
    /\ c.trace[k].r = "fail"

\* the call ended with the resolution of its blob delete
BlobDeleteEnded(c) ==
  /\ Len(c.trace) >= 2
  /\ c.trace[Len(c.trace) - 1].e = "deleteMedia" /\ c.trace[Len(c.trace) - 1].r = "call"

\* C31: removeMediaFromMemory on a cached memory fails only when the updated
\* list cannot be persisted, never because the blob delete failed; when it
\* succeeds the memory's media are the former ones without those whose id is
\* mediaId, in their order (unchanged when none has that id), the backend
\* holds that list and every listener was called
C31_RemovesExactlyTheAttachment ==
  (/\ Idle /\ ret.op = "removeMediaFromMemory"
   /\ ret.pre.initialized /\ FindIndex(ret.pre.memories, ret.id) # 0) =>
    LET before == getMemory(ret.pre, ret.id).media
        after == getMemory(this, ret.id).media
    IN /\ ret.res.ok <=> PersistRequestOk(ret)
       /\ ~ret.res.ok => ~BlobDeleteEnded(ret)
       /\ ret.res.ok =>
            /\ after = SelectSeq(before, LAMBDA a : a.id # ret.mediaId)
            /\ (\A i \in 1..Len(before) : before[i].id # ret.mediaId) => after = before
            /\ PersistedMedia(ret.id) = {after}
            /\ ret.notified = this.changeListeners

\* an attachment was removed from a memory with two, with a listener subscribed,
\* although its blob could not be deleted
C31_RemovedDespiteBlobFailure ==
  /\ Idle /\ ret.op = "removeMediaFromMemory" /\ ret.res.ok
  /\ BlobDeleteFailed(ret)
  /\ Len(getMemory(ret.pre, ret.id).media) = 2
  /\ Len(getMemory(this, ret.id).media) = 1
  /\ ret.notified # <<>>

\* C32: the media type the target's uploadMedia gives a re-uploaded attachment
\* is the media type it had, whatever its file name
C32_MediaTypeSurvivesMigration ==
  conv.pc = "uploaded" =>
    /\ conv.type = conv.legacy.type
    /\ conv.file.type.major = conv.legacy.type

\* an audio or video attachment whose extension getMimeType does not know was
\* given a file and classified
C32_UnknownExtensionClassified ==
  /\ conv.pc = "uploaded"
  /\ conv.legacy.type \in {"audio", "video"}
  /\ conv.legacy.fileName.ext \in {"txt", "", "png"}

\* the call failed because the PATCH of the memories document failed
OverwriteFailed(c) ==
  /\ ~c.res.ok
  /\ c.trace # <<>>
  /\ c.trace[Len(c.trace)] = [e |-> "drive.patch", a |-> 0, r |-> "fail"]

\* C33: a Drive write that fails because the document could not be overwritten
\* leaves the cache as it was when the call was made
C33_FailedSaveLeavesCache ==
  (/\ provider = "googledrive"
   /\ ret.op \in {"createMemory", "updateMemory", "deleteMemory", "removeMediaFromMemory"}
   /\ OverwriteFailed(ret)) =>
    ret.post.memories = ret.pre.memories

\* a createMemory failed on the overwrite and its memory is cached although the
\* document does not hold it
C33_UnsavedMemoryCached ==
  /\ provider = "googledrive" /\ Idle
  /\ ret.op = "createMemory" /\ OverwriteFailed(ret)
  /\ Len(this.memories) = Len(ret.pre.memories) + 1
  /\ \A m \in BackendMemories(this) : m.id # this.memories[1].id

\* C34: a CloudKit updateMemory with new files that fails leaves the cached
\* memory with the attachments it had
C34_FailedUpdateLeavesMedia ==
  (/\ provider = "cloudkit" /\ ret.op = "updateMemory" /\ ret.files # <<>>
   /\ ret.pre.initialized /\ FindIndex(ret.pre.memories, ret.id) # 0
   /\ ~ret.res.ok) =>
    getMemory(ret.post, ret.id).media = getMemory(ret.pre, ret.id).media

\* the record update was rejected after the upload, and the cached memory holds
\* the uploaded attachment
C34_RejectedUpdateKeptAttachment ==
  /\ provider = "cloudkit" /\ ret.op = "updateMemory" /\ ~ret.res.ok
  /\ Len(ret.uploaded) = 1
  /\ ret.trace[Len(ret.trace)] = [e |-> "ck.updateMemory", a |-> 0, r |-> "fail"]
  /\ getMemory(ret.post, ret.id).media = getMemory(ret.pre, ret.id).media \o ret.uploaded

\* the ids of the memories of a set or list
Ids(mems) == {m.id : m \in mems}

\* C35: while the successful createMemory is the last call that returned (no
\* deleteMemory was made since), its memory is in the cache and in the document
C35_CreatedMemoryStays ==
  (provider = "googledrive" /\ ret.op = "createMemory" /\ ret.res.ok) =>
    /\ ret.val.id \in Ids(Range(this.memories))
    /\ ret.val.id \in Ids(BackendMemories(this))

\* a createMemory returned its memory, nothing is in flight, and neither the
\* cache nor the document holds the memory
C35_CreatedMemoryGone ==
  /\ provider = "googledrive" /\ Idle
  /\ ret.op = "createMemory" /\ ret.res.ok
  /\ ret.val.id \notin Ids(Range(this.memories))
  /\ ret.val.id \notin Ids(BackendMemories(this))

\* every createMemory that made a memory has returned successfully, one after
\* the other with no other call returning in between
AllCreatesSucceeded ==
  /\ hist.createRun # <<>>
  /\ Len(hist.createRun) = nextId - 1

\* the memory list of the adapter's Drive document
Document ==
  IF this.memoriesFileId \in 1..Len(remote.files)
    THEN Drive_parse(remote.files[this.memoriesFileId])
    ELSE <<>>

\* C36: when no call is in flight and every call succeeded, the Drive document
\* holds the memory list of the cache
C36_DocumentEqualsCache ==
  (provider = "googledrive" /\ Idle /\ AllCreatesSucceeded) =>
    Document = this.memories

\* two overlapping createMemory calls both succeeded, the cache holds both
\* memories and the document holds one
C36_DocumentBehindCache ==
  /\ provider = "googledrive" /\ Idle /\ AllCreatesSucceeded
  /\ Len(hist.createRun) = 2
  /\ Len(this.memories) = 2
  /\ Len(Document) = 1

\* C37: the initialize calls of one adapter create at most one memories
\* document in the backend
C37_OneDocument ==
  provider = "googledrive" => Len(remote.files) <= 1

\* two overlapping initialize calls both returned successfully and the backend
\* has two memories documents
C37_TwoDocuments ==
  /\ provider = "googledrive" /\ Idle
  /\ ret.op = "initialize" /\ ret.res.ok /\ ~ret.pre.initialized
  /\ hist.okInit = {"u1"}
  /\ Len(remote.files) = 2

\* the last completed transition is a signOut and no signIn is under way
SignedOut ==
  /\ auth.transitions # <<>>
  /\ auth.transitions[Len(auth.transitions)] = "null"
  /\ \A p \in auth.pending : p.op # "signIn"

\* C38: after a completed signOut and before any later signIn the provider has
\* no current user (getCurrentUser answers from currentUser when it is set) and
\* the last value each subscribed listener received is absent
C38_SignedOutStaysSignedOut ==
  (auth.kind = "apple" /\ SignedOut) =>
    /\ auth.currentUser = "null"
    /\ \A cb \in auth.authStateListeners :
         LET d == auth.delivered[cb]
         IN d # <<>> => d[Len(d)].v = "null"

\* a getCurrentUser begun before the signOut was answered after it: the
\* provider has a current user again and told a listener so
C38_SignedInAfterSignOut ==
  /\ auth.kind = "apple" /\ SignedOut /\ auth.pending = {}
  /\ auth.currentUser \in Users
  /\ \E cb \in auth.authStateListeners :
       LET d == auth.delivered[cb]
       IN /\ Len(d) >= 2
          /\ d[Len(d) - 1] = [kind |-> "change", v |-> "null"]
          /\ d[Len(d)].kind = "initial" /\ d[Len(d)].v \in Users

\* C39: a callback whose unsubscribe function was called is not called again
C39_NoCallAfterUnsubscribe ==
  auth.kind = "apple" =>
    \A cb \in Callbacks :
      auth.unsubscribed[cb] => Len(auth.delivered[cb]) = auth.before[cb]

\* a callback unsubscribed before its initial call received that call afterwards
C39_InitialAfterUnsubscribe ==
  /\ auth.kind = "apple"
  /\ \E cb \in Callbacks :
       /\ auth.unsubscribed[cb] /\ auth.before[cb] = 0
       /\ Len(auth.delivered[cb]) = 1
       /\ auth.delivered[cb][1].kind = "initial"

\* --------------------------------------------------- failed fetch claims

\* the call's request for the records was rejected
FetchFailed(c) ==
  \E k \in 1..Len(c.trace) : c.trace[k].e = "ck.fetchMemories" /\ c.trace[k].r = "fail"

\* C40: fetchChanges and forceSync of the CloudKit adapter never fail; when
\* the fetch of the records fails the cache is what it was before the call, no
\* listener is called, fetchChanges returns that cache, and forceSync returns
\* success true, no errors and downloaded equal to that cache's length
C40_FetchFailureIsSwallowed ==
  (/\ provider = "cloudkit" /\ Idle
   /\ ret.op \in {"fetchChanges", "forceSync"}) =>
    /\ ret.res.ok
    /\ FetchFailed(ret) =>
         /\ ret.post.memories = ret.pre.memories
         /\ ret.notified = <<>>
         /\ ret.op = "fetchChanges" => ret.list = ret.pre.memories
         /\ ret.op = "forceSync" =>
              /\ ret.sync.success
              /\ ret.sync.errors = <<>>
              /\ ret.sync.downloaded = Len(ret.pre.memories)

\* a forceSync whose fetch failed has returned on an adapter that holds a
\* memory and has a listener
C40_SyncedAfterFailedFetch ==
  /\ provider = "cloudkit" /\ Idle
  /\ ret.op = "forceSync" /\ FetchFailed(ret)
  /\ ret.pre.memories # <<>>
  /\ ret.pre.changeListeners # <<>>

====
